---------------------------- MODULE Spec2Model ----------------------------
(***************************************************************************)
(* A model of the CHIP-8 virtual machine of src/src/chip8.c and of the SDL *)
(* callback driver of src/src/main.c.                                      *)
(*                                                                         *)
(* The variable chip8 is the struct chip8 of src/include/chip8.h, every    *)
(* field at its C width: memory and registers are bytes, pc, index, opcode *)
(* and the stack slots are 16-bit words.  The other variables are the      *)
(* environment of the machine: the ROM file named on the command line, the *)
(* position of the driver in its callbacks, the value chip8_load_ROM       *)
(* returned, and what the process wrote to stderr before exit().           *)
(***************************************************************************)
EXTENDS Integers, Sequences, FiniteSets

VARIABLES
    chip8,      \* struct chip8 (appstate->chip8)
    file,       \* the file at config.rom_path
    phase,      \* position of the driver, see Phases
    loadResult, \* what chip8_load_ROM returned: "none" before the call
    stderr,     \* the messages written to stderr, oldest first
    ub          \* TRUE once an access outside an array has been made

vars == <<chip8, file, phase, loadResult, stderr, ub>>

-----------------------------------------------------------------------------
(* Program constants.                                                      *)

CHIP8_STACK_SIZE == 16
CHIP8_MEMORY_SIZE == 4096
\* Address 0x200, where the program image starts and where pc starts.
PROGRAM_START == 512
\* The display is 64 columns by 32 rows, row-major.
DISPLAY_WIDTH == 64
DISPLAY_HEIGHT == 32

Addresses == 0..(CHIP8_MEMORY_SIZE - 1)
Pixels == 0..(DISPLAY_WIDTH * DISPLAY_HEIGHT - 1)
Registers == 0..15
StackSlots == 0..(CHIP8_STACK_SIZE - 1)

FONT_DATA ==
    << 240, 144, 144, 144, 240,   \* 0
        32,  96,  32,  32, 112,   \* 1
       240,  16, 240, 128, 240,   \* 2
       240,  16, 240,  16, 240,   \* 3
       144, 144, 240,  16,  16,   \* 4
       240, 128, 240,  16, 240,   \* 5
       240, 128, 240, 144, 240,   \* 6
       240,  16,  32,  64,  64,   \* 7
       240, 144, 240, 144, 240,   \* 8
       240, 144, 240,  16, 240,   \* 9
       240, 144, 240, 144, 144,   \* A
       224, 144, 224, 144, 224,   \* B
       240, 128, 128, 128, 240,   \* C
       224, 144, 144, 144, 224,   \* D
       240, 128, 240, 128, 240,   \* E
       240, 128, 240, 128, 128 >> \* F

-----------------------------------------------------------------------------
(* The machine before chip8_initialize: malloc'd and never written, so     *)
(* every byte is indeterminate.  Garbage(g) is the struct with every byte  *)
(* equal to g; GarbageBytes are the fill bytes tried.                      *)

Garbage(g) ==
    [ opcode  |-> g * 257,
      index   |-> g * 257,
      pc      |-> g * 257,
      stack   |-> [i \in StackSlots |-> g * 257],
      sound   |-> g,
      delay   |-> g,
      sp      |-> g,
      V       |-> [i \in Registers |-> g],
      keypad  |-> [i \in Registers |-> g # 0],
      memory  |-> [a \in Addresses |-> g],
      display |-> [p \in Pixels |-> g # 0] ]

GarbageBytes == {0, 165, 255}

-----------------------------------------------------------------------------
(* chip8_initialize: memset the struct to zero, copy the font to the start *)
(* of memory, set pc to 0x200.                                             *)

\* chip8_initialize without the memset: the font and pc are set, the rest stays.
chip8_initialize_NoMemset(c) ==
    [c EXCEPT !.pc = PROGRAM_START,
              !.memory = [a \in Addresses |->
                            IF a < Len(FONT_DATA) THEN FONT_DATA[a + 1]
                            ELSE c.memory[a]]]

\* chip8_initialize with the font copied to 0x50.
chip8_initialize_FontAt80(c) ==
    [ opcode  |-> 0,
      index   |-> 0,
      pc      |-> PROGRAM_START,
      stack   |-> [i \in StackSlots |-> 0],
      sound   |-> 0,
      delay   |-> 0,
      sp      |-> 0,
      V       |-> [i \in Registers |-> 0],
      keypad  |-> [i \in Registers |-> FALSE],
      memory  |-> [a \in Addresses |->
                     IF a >= 80 /\ a < 80 + Len(FONT_DATA)
                     THEN FONT_DATA[a - 80 + 1] ELSE 0],
      display |-> [p \in Pixels |-> FALSE] ]

chip8_initialize(c) ==
    [ opcode  |-> 0,
      index   |-> 0,
      pc      |-> PROGRAM_START,
      stack   |-> [i \in StackSlots |-> 0],
      sound   |-> 0,
      delay   |-> 0,
      sp      |-> 0,
      V       |-> [i \in Registers |-> 0],
      keypad  |-> [i \in Registers |-> FALSE],
      memory  |-> [a \in Addresses |->
                     IF a < Len(FONT_DATA) THEN FONT_DATA[a + 1] ELSE 0],
      display |-> [p \in Pixels |-> FALSE] ]

-----------------------------------------------------------------------------
(* The ROM file.  kind is "ok" for a readable regular file, "missing" when *)
(* fopen fails, "notell" when ftell returns -1; bytes is its content.      *)

NoMessage == <<>>

Message(text, opcode) == [text |-> text, opcode |-> opcode]

\* long romFileSize = ftell(rom_file)
romFileSize(f) == IF f.kind = "notell" THEN -1 ELSE Len(f.bytes)

\* chip8_load_ROM reading to &memory[0x200 - 1].
chip8_load_ROM_OneBelow(c, f) ==
    IF f.kind = "missing" \/ romFileSize(f) = -1
       \/ romFileSize(f) > CHIP8_MEMORY_SIZE - 512
    THEN [chip8 |-> c, ret |-> FALSE, msg |-> NoMessage]
    ELSE [chip8 |-> [c EXCEPT !.memory =
                        [a \in Addresses |->
                           IF a >= PROGRAM_START - 1
                              /\ a < PROGRAM_START - 1 + romFileSize(f)
                           THEN f.bytes[a - PROGRAM_START + 2]
                           ELSE c.memory[a]]],
          ret |-> TRUE, msg |-> NoMessage]

\* chip8_load_ROM with the size test >= in place of >.
chip8_load_ROM_SizeGeq(c, f) ==
    IF f.kind = "missing" \/ romFileSize(f) = -1
       \/ romFileSize(f) >= CHIP8_MEMORY_SIZE - 512
    THEN [chip8 |-> c, ret |-> FALSE, msg |-> NoMessage]
    ELSE [chip8 |-> [c EXCEPT !.memory =
                        [a \in Addresses |->
                           IF a >= PROGRAM_START /\ a < PROGRAM_START + romFileSize(f)
                           THEN f.bytes[a - PROGRAM_START + 1]
                           ELSE c.memory[a]]],
          ret |-> TRUE, msg |-> NoMessage]

(* chip8_load_ROM returns [chip8, ret, msg]: the machine after the call,   *)
(* the bool it returns and what it printed.                                *)
chip8_load_ROM(c, f) ==
    IF f.kind = "missing"
    THEN [chip8 |-> c, ret |-> FALSE, msg |-> <<Message("Could not open", 0)>>]
    ELSE IF romFileSize(f) = -1
    THEN [chip8 |-> c, ret |-> FALSE, msg |-> NoMessage]
    ELSE IF romFileSize(f) > CHIP8_MEMORY_SIZE - 512
    THEN [chip8 |-> c, ret |-> FALSE, msg |-> <<Message("ROM too large", 0)>>]
    ELSE [chip8 |-> [c EXCEPT !.memory =
                        [a \in Addresses |->
                           IF a >= PROGRAM_START /\ a < PROGRAM_START + romFileSize(f)
                           THEN f.bytes[a - PROGRAM_START + 1]
                           ELSE c.memory[a]]],
          ret |-> TRUE, msg |-> NoMessage]

-----------------------------------------------------------------------------
(* Decoding: the nibbles of the opcode, as the masks and shifts of the     *)
(* handlers extract them.                                                  *)

\* (opcode & 0x0F00) >> 8
OpX(c) == (c.opcode \div 256) % 16
\* (opcode & 0x00F0) >> 4
OpY(c) == (c.opcode \div 16) % 16
\* opcode & 0x000F
OpN(c) == c.opcode % 16
\* opcode & 0x00FF
OpNN(c) == c.opcode % 256
\* opcode & 0x0FFF
OpNNN(c) == c.opcode % 4096

\* The C operators &, | and ^ on naturals.
RECURSIVE BitAnd(_, _)
BitAnd(a, b) ==
    IF a = 0 \/ b = 0 THEN 0
    ELSE (a % 2) * (b % 2) + 2 * BitAnd(a \div 2, b \div 2)

RECURSIVE BitOr(_, _)
BitOr(a, b) ==
    IF a = 0 THEN b
    ELSE IF b = 0 THEN a
    ELSE (IF a % 2 = 1 \/ b % 2 = 1 THEN 1 ELSE 0) + 2 * BitOr(a \div 2, b \div 2)

RECURSIVE BitXor(_, _)
BitXor(a, b) ==
    IF a = 0 THEN b
    ELSE IF b = 0 THEN a
    ELSE ((a + b) % 2) + 2 * BitXor(a \div 2, b \div 2)

-----------------------------------------------------------------------------
(* What a handler leaves behind: the machine m, whether it called exit(),  *)
(* what it printed, and whether it indexed an array outside its bounds.    *)
(* In struct chip8 memory is followed by display, the last member, so      *)
(* memory[4096 + k] with k below 2048 is the storage of display[k]; what   *)
(* is further up is outside the struct.  An access outside memory either   *)
(* goes to that storage (e.adjacent, for the addresses that have one) or   *)
(* does what the environment e of the step says: a read yields e.byte, a   *)
(* write does not land in the machine.                                     *)

Ok(m) == [m |-> m, exit |-> FALSE, msg |-> NoMessage, ub |-> FALSE]

Undefined(m) == [m |-> m, exit |-> FALSE, msg |-> NoMessage, ub |-> TRUE]

unrecognisedOpcode(m) ==
    [m |-> m, exit |-> TRUE,
     msg |-> <<Message("Opcode unrecognised", m.opcode)>>, ub |-> FALSE]

\* The address a, outside memory, is the storage of a display cell.
InDisplay(a) == a - CHIP8_MEMORY_SIZE \in Pixels

\* chip8->memory[a] as an rvalue
MemRead(c, a, e) ==
    IF a \in Addresses
    THEN c.memory[a]
    ELSE IF e.adjacent /\ InDisplay(a)
    THEN (IF c.display[a - CHIP8_MEMORY_SIZE] THEN 1 ELSE 0)
    ELSE e.byte

\* chip8->memory[a] = v, applied to a handler result
MemWrite(r, a, v, e) ==
    IF a \in Addresses
    THEN [r EXCEPT !.m.memory[a] = v]
    ELSE IF e.adjacent /\ InDisplay(a)
    THEN [r EXCEPT !.m.display[a - CHIP8_MEMORY_SIZE] = (v # 0), !.ub = TRUE]
    ELSE [r EXCEPT !.ub = TRUE]

jump(c, NNN) == [c EXCEPT !.pc = NNN]

\* push storing the address of the call in place of the advanced pc.
push_StoresCallAddress(c) ==
    IF c.sp > CHIP8_STACK_SIZE - 1
    THEN [m |-> c, exit |-> TRUE, msg |-> <<Message("Stack Overflow", 0)>>,
          ub |-> FALSE]
    ELSE Ok([c EXCEPT !.stack[c.sp] = (c.pc - 2) % 65536, !.sp = c.sp + 1])

\* push with the test sp > CHIP8_STACK_SIZE: a 17th push is let through.
push_OneMore(c) ==
    IF c.sp > CHIP8_STACK_SIZE
    THEN [m |-> c, exit |-> TRUE, msg |-> <<Message("Stack Overflow", 0)>>,
          ub |-> FALSE]
    ELSE Ok([c EXCEPT !.stack = [i \in StackSlots |->
                                   IF i = c.sp THEN c.pc ELSE c.stack[i]],
                      !.sp = c.sp + 1])

push(c) ==
    IF c.sp > CHIP8_STACK_SIZE - 1
    THEN [m |-> c, exit |-> TRUE, msg |-> <<Message("Stack Overflow", 0)>>,
          ub |-> FALSE]
    ELSE Ok([c EXCEPT !.stack[c.sp] = c.pc, !.sp = c.sp + 1])

\* pop jumping to stack[0] when the stack is empty.
pop_JumpOnEmpty(c) ==
    IF c.sp = 0
    THEN jump(c, c.stack[0])
    ELSE jump([c EXCEPT !.sp = c.sp - 1], c.stack[c.sp - 1])

\* pop without the sp == 0 test: --sp on the uint8_t wraps to 255; the slot
\* read is taken modulo the 16 slots.
pop_Unguarded(c) ==
    jump([c EXCEPT !.sp = (c.sp - 1) % 256],
         c.stack[((c.sp - 1) % 256) % CHIP8_STACK_SIZE])

pop(c) ==
    IF c.sp = 0
    THEN c
    ELSE jump([c EXCEPT !.sp = c.sp - 1], c.stack[c.sp - 1])

\* chip8->pc += 2 on a uint16_t
SkipNext(c) == [c EXCEPT !.pc = (c.pc + 2) % 65536]

\* convert_binary_to_decimal_and_load writing the ones first.
convert_binary_to_decimal_and_load_OnesFirst(c, e) ==
    LET value == c.V[OpX(c)]
        ones == value % 10
        tens == (value \div 10) % 10
        hundreds == (value \div 100) % 10
    IN  MemWrite(MemWrite(MemWrite(Ok(c), c.index + 0, ones, e),
                          c.index + 1, tens, e),
                 c.index + 2, hundreds, e)

convert_binary_to_decimal_and_load(c, e) ==
    LET value == c.V[OpX(c)]
        ones == value % 10
        tens == (value \div 10) % 10
        hundreds == (value \div 100) % 10
    IN  MemWrite(MemWrite(MemWrite(Ok(c), c.index + 0, hundreds, e),
                          c.index + 1, tens, e),
                 c.index + 2, ones, e)

-----------------------------------------------------------------------------
(* The instruction handlers, on the machine after the fetch.               *)

\* x0 with 00E0 leaving the display as it is.
x0_NoClear(c) ==
    IF c.opcode = 224
    THEN Ok(c)
    ELSE IF c.opcode = 238
    THEN Ok(pop(c))
    ELSE unrecognisedOpcode(c)

x0(c) ==
    IF c.opcode = 224            \* 00E0
    THEN Ok([c EXCEPT !.display = [p \in Pixels |-> FALSE]])
    ELSE IF c.opcode = 238       \* 00EE
    THEN Ok(pop(c))
    ELSE unrecognisedOpcode(c)

x1(c) == Ok(jump(c, OpNNN(c)))

x2(c) ==
    LET r == push(c)
    IN  IF r.exit THEN r ELSE Ok(jump(r.m, OpNNN(c)))

x3(c) == Ok(IF c.V[OpX(c)] = OpNN(c) THEN SkipNext(c) ELSE c)

x4(c) == Ok(IF c.V[OpX(c)] # OpNN(c) THEN SkipNext(c) ELSE c)

\* (opcode & 0x00F0) >> 8, the register index x5 computes for VY
x5Y(c) == ((c.opcode \div 16) % 16 * 16) \div 256

x5(c) == Ok(IF c.V[OpX(c)] = c.V[x5Y(c)] THEN SkipNext(c) ELSE c)

x6(c) == Ok([c EXCEPT !.V[OpX(c)] = OpNN(c)])

\* 7XNN as a saturating add.
x7_Saturating(c) ==
    Ok([c EXCEPT !.V[OpX(c)] =
            IF c.V[OpX(c)] + OpNN(c) > 255 THEN 255 ELSE c.V[OpX(c)] + OpNN(c)])

x7(c) == Ok([c EXCEPT !.V[OpX(c)] = (c.V[OpX(c)] + OpNN(c)) % 256])

x8ShiftQuirk == FALSE

\* chip8->V[0xF] = flag; *VX = value: the flag written first.
VFThenSetVX(c, value, flag) ==
    [c EXCEPT !.V = [[c.V EXCEPT ![15] = flag] EXCEPT ![OpX(c)] = value]]

\* *VX = value; chip8->V[0xF] = flag, in that order
SetVXThenVF(c, value, flag) ==
    [c EXCEPT !.V = [[c.V EXCEPT ![OpX(c)] = value] EXCEPT ![15] = flag]]

\* The operand of the shifts: VX, or VY under the quirk.
Shifted(c) == IF x8ShiftQuirk THEN c.V[OpY(c)] ELSE c.V[OpX(c)]

\* case 0x4 (8XY4) with the overflow test made on the uint8_t sum.
x8_ADD_CarryAfterAdd(c) ==
    LET VX == c.V[OpX(c)]
        VY == c.V[OpY(c)]
    IN  SetVXThenVF(c, (VX + VY) % 256,
                    IF (VX + VY) % 256 > 255 THEN 1 ELSE 0)

\* case 0x4: overflow = (*VX + VY) > 0xFF; *VX += VY; V[0xF] = overflow
x8_ADD(c) ==
    LET VX == c.V[OpX(c)]
        VY == c.V[OpY(c)]
    IN  SetVXThenVF(c, (VX + VY) % 256, IF VX + VY > 255 THEN 1 ELSE 0)

\* case 0x5 (8XY5) with underflow = VY >= *VX.
x8_SUB_BorrowOnEqual(c) ==
    LET VX == c.V[OpX(c)]
        VY == c.V[OpY(c)]
    IN  SetVXThenVF(c, (VX - VY) % 256, IF VY >= VX THEN 0 ELSE 1)

\* case 0x5: underflow = VY > *VX; *VX -= VY; V[0xF] = underflow ? 0 : 1
x8_SUB(c) ==
    LET VX == c.V[OpX(c)]
        VY == c.V[OpY(c)]
    IN  SetVXThenVF(c, (VX - VY) % 256, IF VY > VX THEN 0 ELSE 1)

\* case 0x6 (8XY6) with the shift quirk on: VY is shifted into VX.
x8_SHR_Quirk(c) ==
    SetVXThenVF(c, c.V[OpY(c)] \div 2, c.V[OpY(c)] % 2)

\* case 0x6: dropped_bit = *VX & 0x1; *VX >>= 1; V[0xF] = dropped_bit
x8_SHR(c) == SetVXThenVF(c, Shifted(c) \div 2, Shifted(c) % 2)

\* case 0x7: underflow = *VX > VY; *VX = VY - *VX; V[0xF] = underflow ? 0 : 1
x8_SUBN(c) ==
    LET VX == c.V[OpX(c)]
        VY == c.V[OpY(c)]
    IN  SetVXThenVF(c, (VY - VX) % 256, IF VX > VY THEN 0 ELSE 1)

\* case 0xE: dropped_bit = *VX >> 7; *VX <<= 1; V[0xF] = dropped_bit
x8_SHL(c) == SetVXThenVF(c, (Shifted(c) * 2) % 256, Shifted(c) \div 128)

\* x8 with the default case doing nothing.
x8_IgnoreUnknown(c) ==
    LET code == OpN(c)
        VX == c.V[OpX(c)]
        VY == c.V[OpY(c)]
    IN  CASE code = 0 -> Ok([c EXCEPT !.V[OpX(c)] = VY])
          [] code = 1 -> Ok([c EXCEPT !.V[OpX(c)] = BitOr(VX, VY)])
          [] code = 2 -> Ok([c EXCEPT !.V[OpX(c)] = BitAnd(VX, VY)])
          [] code = 3 -> Ok([c EXCEPT !.V[OpX(c)] = BitXor(VX, VY)])
          [] code = 4 -> Ok(x8_ADD(c))
          [] code = 5 -> Ok(x8_SUB(c))
          [] code = 6 -> Ok(x8_SHR(c))
          [] code = 7 -> Ok(x8_SUBN(c))
          [] code = 14 -> Ok(x8_SHL(c))
          [] OTHER -> Ok(c)

x8(c) ==
    LET code == OpN(c)
        VX == c.V[OpX(c)]
        VY == c.V[OpY(c)]
    IN  CASE code = 0 -> Ok([c EXCEPT !.V[OpX(c)] = VY])
          [] code = 1 -> Ok([c EXCEPT !.V[OpX(c)] = BitOr(VX, VY)])
          [] code = 2 -> Ok([c EXCEPT !.V[OpX(c)] = BitAnd(VX, VY)])
          [] code = 3 -> Ok([c EXCEPT !.V[OpX(c)] = BitXor(VX, VY)])
          [] code = 4 -> Ok(x8_ADD(c))
          [] code = 5 -> Ok(x8_SUB(c))
          [] code = 6 -> Ok(x8_SHR(c))
          [] code = 7 -> Ok(x8_SUBN(c))
          [] code = 14 -> Ok(x8_SHL(c))
          [] OTHER -> unrecognisedOpcode(c)

\* x9 decoding Y as x5 does.
x9_ShiftBy8(c) == Ok(IF c.V[OpX(c)] # c.V[x5Y(c)] THEN SkipNext(c) ELSE c)

x9(c) == Ok(IF c.V[OpX(c)] # c.V[OpY(c)] THEN SkipNext(c) ELSE c)

xA(c) == Ok([c EXCEPT !.index = OpNNN(c)])

xBJumpQuirk == FALSE

xB(c) ==
    LET NNN == (OpNNN(c) + (IF xBJumpQuirk THEN c.V[OpX(c)] ELSE c.V[0])) % 65536
    IN  Ok(jump(c, NNN))

\* e.rand is the low byte of what rand() returned
xC(c, e) == Ok([c EXCEPT !.V[OpX(c)] = BitAnd(e.rand, OpNN(c))])

\* The inner loop of xD with a set bit on a set cell leaving the cell set.
RECURSIVE DrawCols_Or(_, _, _, _, _, _)
DrawCols_Or(r, pixelByte, X, Y, row, col) ==
    IF col >= 8 \/ X + col > 63
    THEN r
    ELSE LET pixel == (pixelByte \div (2 ^ (7 - col))) % 2 = 1
             p == (X + col) + ((Y + row) * 64)
             r1 == IF pixel /\ r.m.display[p]
                   THEN [r EXCEPT !.m.V[15] = 1]
                   ELSE IF pixel /\ ~r.m.display[p]
                   THEN [r EXCEPT !.m.display[p] = TRUE]
                   ELSE r
         IN  DrawCols_Or(r1, pixelByte, X, Y, row, col + 1)

\* The inner loop of xD with the columns past the right edge wrapped to the
\* left edge of the same row.
RECURSIVE DrawCols_WrapColumns(_, _, _, _, _, _)
DrawCols_WrapColumns(r, pixelByte, X, Y, row, col) ==
    IF col >= 8
    THEN r
    ELSE LET pixel == (pixelByte \div (2 ^ (7 - col))) % 2 = 1
             p == ((X + col) % 64) + ((Y + row) * 64)
             r1 == IF pixel /\ r.m.display[p]
                   THEN [r EXCEPT !.m.display[p] = FALSE, !.m.V[15] = 1]
                   ELSE IF pixel /\ ~r.m.display[p]
                   THEN [r EXCEPT !.m.display[p] = TRUE]
                   ELSE r
         IN  DrawCols_WrapColumns(r1, pixelByte, X, Y, row, col + 1)

\* The inner loop of xD: the columns of one sprite row.
RECURSIVE DrawCols(_, _, _, _, _, _)
DrawCols(r, pixelByte, X, Y, row, col) ==
    IF col >= 8 \/ X + col > 63
    THEN r
    ELSE LET pixel == (pixelByte \div (2 ^ (7 - col))) % 2 = 1
             p == (X + col) + ((Y + row) * 64)
             r1 == IF pixel /\ r.m.display[p]
                   THEN [r EXCEPT !.m.display[p] = FALSE, !.m.V[15] = 1]
                   ELSE IF pixel /\ ~r.m.display[p]
                   THEN [r EXCEPT !.m.display[p] = TRUE]
                   ELSE r
         IN  DrawCols(r1, pixelByte, X, Y, row, col + 1)

\* The outer loop of xD: the sprite byte is read before the bottom test.
RECURSIVE DrawRows(_, _, _, _, _, _)
DrawRows(r, e, X, Y, N, row) ==
    IF row >= N
    THEN r
    ELSE LET a == r.m.index + row
             r0 == IF a \in Addresses THEN r ELSE [r EXCEPT !.ub = TRUE]
             pixelByte == MemRead(r.m, a, e)
         IN  IF Y + row > 31
             THEN r0
             ELSE DrawRows(DrawCols(r0, pixelByte, X, Y, row, 0),
                           e, X, Y, N, row + 1)

\* xD without the reset of VF.
xD_KeepFlag(c, e) ==
    LET X == c.V[OpX(c)] % 64
        Y == c.V[OpY(c)] % 32
        N == OpN(c)
    IN  DrawRows(Ok(c), e, X, Y, N, 0)

xD(c, e) ==
    LET X == c.V[OpX(c)] % 64
        Y == c.V[OpY(c)] % 32
        N == OpN(c)
    IN  DrawRows(Ok([c EXCEPT !.V[15] = 0]), e, X, Y, N, 0)

\* keypad[*VX] is read before the switch and VX is not tested: with VX
\* above 15 the read is outside the array, and the flag is whatever the
\* environment of the step yields.
xE(c, e) ==
    LET VX == c.V[OpX(c)]
        isKeyPressed == IF VX \in Registers THEN c.keypad[VX] ELSE e.byte # 0
        r == IF VX \in Registers THEN Ok(c) ELSE Undefined(c)
        code == OpNN(c)
    IN  CASE code = 158 ->       \* EX9E
               IF isKeyPressed THEN [r EXCEPT !.m = SkipNext(c)] ELSE r
          [] code = 161 ->       \* EXA1
               IF ~isKeyPressed THEN [r EXCEPT !.m = SkipNext(c)] ELSE r
          [] OTHER -> [unrecognisedOpcode(c) EXCEPT !.ub = r.ub]

xFIndexQuirk == FALSE

\* The loop of xF case 0x55 with the test i < X: VX is not stored.
RECURSIVE StoreRegisters_Exclusive(_, _, _, _, _)
StoreRegisters_Exclusive(r, e, initialIndex, X, i) ==
    IF i >= X
    THEN r
    ELSE StoreRegisters_Exclusive(MemWrite(r, initialIndex + i, r.m.V[i], e),
                                  e, initialIndex, X, i + 1)

\* The loop of xF case 0x55, from i on.
RECURSIVE StoreRegisters(_, _, _, _, _)
StoreRegisters(r, e, initialIndex, X, i) ==
    IF i > X
    THEN r
    ELSE LET r1 == MemWrite(r, initialIndex + i, r.m.V[i], e)
             r2 == IF xFIndexQuirk
                   THEN [r1 EXCEPT !.m.index = (r1.m.index + 1) % 65536]
                   ELSE r1
         IN  StoreRegisters(r2, e, initialIndex, X, i + 1)

\* The loop of xF case 0x65 running up to VF whatever X is.
RECURSIVE LoadRegisters_All(_, _, _, _, _)
LoadRegisters_All(r, e, initialIndex, X, i) ==
    IF i > 15
    THEN r
    ELSE LET a == initialIndex + i
             r0 == IF a \in Addresses THEN r ELSE [r EXCEPT !.ub = TRUE]
             r1 == [r0 EXCEPT !.m.V[i] = MemRead(r.m, a, e)]
         IN  LoadRegisters_All(r1, e, initialIndex, X, i + 1)

\* The loop of xF case 0x65, from i on.
RECURSIVE LoadRegisters(_, _, _, _, _)
LoadRegisters(r, e, initialIndex, X, i) ==
    IF i > X
    THEN r
    ELSE LET a == initialIndex + i
             r0 == IF a \in Addresses THEN r ELSE [r EXCEPT !.ub = TRUE]
             r1 == [r0 EXCEPT !.m.V[i] = MemRead(r.m, a, e)]
             r2 == IF xFIndexQuirk
                   THEN [r1 EXCEPT !.m.index = (r1.m.index + 1) % 65536]
                   ELSE r1
         IN  LoadRegisters(r2, e, initialIndex, X, i + 1)

\* The highest i with keypad[i] set.
FirstKey_Highest(c) ==
    CHOOSE i \in Registers :
        c.keypad[i] /\ \A j \in Registers : j > i => ~c.keypad[j]

\* The lowest i with keypad[i] set, the i at which the loop of 0x0A breaks.
FirstKey(c) ==
    CHOOSE i \in Registers :
        c.keypad[i] /\ \A j \in Registers : j < i => ~c.keypad[j]

\* xF with case 0x0A leaving pc as it is when no key is down.
xF_AwaitAdvances(c, e) ==
    LET code == OpNN(c)
        X == OpX(c)
        VX == c.V[X]
        initialIndex == c.index
        found == \E i \in Registers : c.keypad[i]
    IN  CASE code = 7 -> Ok([c EXCEPT !.V[X] = c.delay])
          [] code = 10 ->
               IF found
               THEN Ok([c EXCEPT !.V[X] = FirstKey(c)])
               ELSE Ok(c)
          [] code = 21 -> Ok([c EXCEPT !.delay = VX])
          [] code = 24 -> Ok([c EXCEPT !.sound = VX])
          [] code = 30 ->
               LET sum == (c.index + VX) % 65536
               IN  Ok([c EXCEPT !.index = sum,
                                !.V[15] = IF sum >= 4096 THEN 1 ELSE 0])
          [] code = 41 -> Ok([c EXCEPT !.index = 0 + (VX * 5)])
          [] code = 51 -> convert_binary_to_decimal_and_load(c, e)
          [] code = 85 -> StoreRegisters(Ok(c), e, initialIndex, X, 0)
          [] code = 101 -> LoadRegisters(Ok(c), e, initialIndex, X, 0)
          [] OTHER -> unrecognisedOpcode(c)

\* xF with case 0x1E setting VF when index is above 0x1000.
xF_IndexFlagAbove(c, e) ==
    LET code == OpNN(c)
        X == OpX(c)
        VX == c.V[X]
        initialIndex == c.index
        found == \E i \in Registers : c.keypad[i]
    IN  CASE code = 7 -> Ok([c EXCEPT !.V[X] = c.delay])
          [] code = 10 ->
               IF found
               THEN Ok([c EXCEPT !.V[X] = FirstKey(c)])
               ELSE Ok([c EXCEPT !.pc = (c.pc - 2) % 65536])
          [] code = 21 -> Ok([c EXCEPT !.delay = VX])
          [] code = 24 -> Ok([c EXCEPT !.sound = VX])
          [] code = 30 ->
               LET sum == (c.index + VX) % 65536
               IN  Ok([c EXCEPT !.index = sum,
                                !.V[15] = IF sum > 4096 THEN 1 ELSE 0])
          [] code = 41 -> Ok([c EXCEPT !.index = 0 + (VX * 5)])
          [] code = 51 -> convert_binary_to_decimal_and_load(c, e)
          [] code = 85 -> StoreRegisters(Ok(c), e, initialIndex, X, 0)
          [] code = 101 -> LoadRegisters(Ok(c), e, initialIndex, X, 0)
          [] OTHER -> unrecognisedOpcode(c)

\* xF with case 0x0A clearing the flag of the key it takes.
xF_AwaitConsumesKey(c, e) ==
    LET code == OpNN(c)
        X == OpX(c)
        VX == c.V[X]
        initialIndex == c.index
        found == \E i \in Registers : c.keypad[i]
    IN  CASE code = 7 -> Ok([c EXCEPT !.V[X] = c.delay])
          [] code = 10 ->
               IF found
               THEN Ok([c EXCEPT !.V[X] = FirstKey(c),
                                 !.keypad[FirstKey(c)] = FALSE])
               ELSE Ok([c EXCEPT !.pc = (c.pc - 2) % 65536])
          [] code = 21 -> Ok([c EXCEPT !.delay = VX])
          [] code = 24 -> Ok([c EXCEPT !.sound = VX])
          [] code = 30 ->
               LET sum == (c.index + VX) % 65536
               IN  Ok([c EXCEPT !.index = sum,
                                !.V[15] = IF sum >= 4096 THEN 1 ELSE 0])
          [] code = 41 -> Ok([c EXCEPT !.index = 0 + (VX * 5)])
          [] code = 51 -> convert_binary_to_decimal_and_load(c, e)
          [] code = 85 -> StoreRegisters(Ok(c), e, initialIndex, X, 0)
          [] code = 101 -> LoadRegisters(Ok(c), e, initialIndex, X, 0)
          [] OTHER -> unrecognisedOpcode(c)

xF(c, e) ==
    LET code == OpNN(c)
        X == OpX(c)
        VX == c.V[X]
        initialIndex == c.index
        found == \E i \in Registers : c.keypad[i]
    IN  CASE code = 7 -> Ok([c EXCEPT !.V[X] = c.delay])
          [] code = 10 ->
               IF found
               THEN Ok([c EXCEPT !.V[X] = FirstKey(c)])
               ELSE Ok([c EXCEPT !.pc = (c.pc - 2) % 65536])
          [] code = 21 -> Ok([c EXCEPT !.delay = VX])
          [] code = 24 -> Ok([c EXCEPT !.sound = VX])
          [] code = 30 ->
               LET sum == (c.index + VX) % 65536
               IN  Ok([c EXCEPT !.index = sum,
                                !.V[15] = IF sum >= 4096 THEN 1 ELSE 0])
          [] code = 41 -> Ok([c EXCEPT !.index = 0 + (VX * 5)])
          [] code = 51 -> convert_binary_to_decimal_and_load(c, e)
          [] code = 85 -> StoreRegisters(Ok(c), e, initialIndex, X, 0)
          [] code = 101 -> LoadRegisters(Ok(c), e, initialIndex, X, 0)
          [] OTHER -> unrecognisedOpcode(c)

\* OPS[importantNibble](chip8)
OPS(c, e) ==
    LET importantNibble == c.opcode \div 4096
    IN  CASE importantNibble = 0 -> x0(c)
          [] importantNibble = 1 -> x1(c)
          [] importantNibble = 2 -> x2(c)
          [] importantNibble = 3 -> x3(c)
          [] importantNibble = 4 -> x4(c)
          [] importantNibble = 5 -> x5(c)
          [] importantNibble = 6 -> x6(c)
          [] importantNibble = 7 -> x7(c)
          [] importantNibble = 8 -> x8(c)
          [] importantNibble = 9 -> x9(c)
          [] importantNibble = 10 -> xA(c)
          [] importantNibble = 11 -> xB(c)
          [] importantNibble = 12 -> xC(c, e)
          [] importantNibble = 13 -> xD(c, e)
          [] importantNibble = 14 -> xE(c, e)
          [] importantNibble = 15 -> xF(c, e)

\* The fetch taking the low byte first: memory[pc] | memory[pc + 1] << 8
Fetch_LowByteFirst(c, e) ==
    MemRead(c, c.pc, e) + MemRead(c, c.pc + 1, e) * 256

\* The opcode at pc: memory[pc] << 8 | memory[pc + 1]
Fetch(c, e) == MemRead(c, c.pc, e) * 256 + MemRead(c, c.pc + 1, e)

\* The timers decremented without the > 0 tests, on uint8_t.
Timers_Unguarded(c) ==
    [c EXCEPT !.delay = (c.delay - 1) % 256, !.sound = (c.sound - 1) % 256]

\* The timers part of chip8_clock.
Timers(c) ==
    [c EXCEPT !.delay = IF c.delay > 0 THEN c.delay - 1 ELSE c.delay,
              !.sound = IF c.sound > 0 THEN c.sound - 1 ELSE c.sound]

\* chip8_clock with the timers decremented before the handler runs.
chip8_clock_TimersFirst(c, e) ==
    LET fetchUB == c.pc + 1 \notin Addresses
        c1 == [c EXCEPT !.opcode = Fetch(c, e), !.pc = (c.pc + 2) % 65536]
        r == OPS(Timers(c1), e)
    IN  [r EXCEPT !.ub = r.ub \/ fetchUB]

(* chip8_clock: fetch, advance pc, dispatch, then the timers.  A handler   *)
(* that calls exit() never returns, so the timers are not reached.         *)
chip8_clock(c, e) ==
    LET fetchUB == c.pc + 1 \notin Addresses
        c1 == [c EXCEPT !.opcode = Fetch(c, e), !.pc = (c.pc + 2) % 65536]
        r == OPS(c1, e)
        r1 == [r EXCEPT !.ub = r.ub \/ fetchUB]
    IN  IF r1.exit THEN r1 ELSE [r1 EXCEPT !.m = Timers(r.m)]

-----------------------------------------------------------------------------
(* The environment of one chip8_clock call: byte is what a read outside an *)
(* array yields, rand the low byte of rand(), crash whether an access      *)
(* outside an array ends the process, adjacent whether an access just past *)
(* memory goes to the display that follows it.  Only the choices the call  *)
(* can observe are enumerated.                                             *)

UBBytes == {0, 255}
RandBytes == {0, 1, 170, 255}

Env0 == [byte |-> 0, rand |-> 0, crash |-> FALSE, adjacent |-> FALSE]

Envs(c) ==
    LET r == chip8_clock(c, Env0)
        random == r.ub \/ r.m.opcode \div 4096 = 12
    IN  { [byte |-> b, rand |-> x, crash |-> k, adjacent |-> d] :
            b \in (IF r.ub THEN UBBytes ELSE {0}),
            x \in (IF random THEN RandBytes ELSE {0}),
            k \in (IF r.ub THEN BOOLEAN ELSE {FALSE}),
            d \in (IF r.ub THEN BOOLEAN ELSE {FALSE}) }

-----------------------------------------------------------------------------
(* The driver.  phase is its position:                                     *)
(*   "start"        SDL_AppInit has allocated the appstate                 *)
(*   "initialized"  chip8_initialize has returned                          *)
(*   "loaded"       chip8_load_ROM has returned                            *)
(*   "idle"         between two callbacks                                  *)
(*   "loop"         in the while loop of SDL_AppIterate, after a clock     *)
(*   "exited"       a handler called exit(EXIT_FAILURE)                    *)
(*   "crashed"      an access outside an array ended the process           *)
(*   "quit"         SDL_AppQuit has freed the appstate                     *)
(* SDL_AppIterate with elapsed < clock_interval_nsec returns at once and   *)
(* changes nothing of this state; the surface and the renderer are not     *)
(* part of it.  handleOptions runs before the machine is touched and ends  *)
(* the process when no ROM path is given; the model starts after it.       *)

GarbageMachines == {Garbage(g) : g \in GarbageBytes}

Freed == Garbage(0)

\* main.c:94
AppInit_initialize ==
    /\ phase = "start"
    /\ chip8' = chip8_initialize(chip8)
    /\ phase' = "initialized"
    /\ UNCHANGED <<file, loadResult, stderr, ub>>

\* main.c:95: the value chip8_load_ROM returns is not looked at
AppInit_load ==
    /\ phase = "initialized"
    /\ LET r == chip8_load_ROM(chip8, file)
       IN  /\ chip8' = r.chip8
           /\ loadResult' = IF r.ret THEN "ok" ELSE "failed"
           /\ stderr' = stderr \o r.msg
    /\ phase' = "loaded"
    /\ UNCHANGED <<file, ub>>

\* SDL_AppQuit: free(state).  Nothing reads the machine afterwards; the
\* variable then holds Freed.
AppQuit ==
    /\ chip8' = Freed
    /\ phase' = "quit"
    /\ UNCHANGED <<file, loadResult, stderr, ub>>

\* main.c:97-137: an SDL call fails (SDL_APP_FAILURE) or all succeed
AppInit_SDL ==
    /\ phase = "loaded"
    /\ \E ok \in BOOLEAN :
         IF ok
         THEN phase' = "idle" /\ UNCHANGED <<chip8, file, loadResult, stderr, ub>>
         ELSE AppQuit

\* One call chip8_clock(&state->chip8) of the loop at main.c:154-157.
Clock ==
    \E e \in Envs(chip8) :
        LET r == chip8_clock(chip8, e)
        IN  /\ chip8' = IF r.ub /\ e.crash THEN chip8 ELSE r.m
            /\ stderr' = IF r.ub /\ e.crash THEN stderr ELSE stderr \o r.msg
            /\ ub' = (ub \/ r.ub)
            /\ phase' = IF r.ub /\ e.crash THEN "crashed"
                        ELSE IF r.exit THEN "exited"
                        ELSE "loop"
            /\ UNCHANGED <<file, loadResult>>

\* SDL_AppIterate with elapsed >= clock_interval_nsec: the first iteration
AppIterate ==
    /\ phase = "idle"
    /\ Clock

\* a further iteration of the while loop
AppIterate_loop ==
    /\ phase = "loop"
    /\ Clock

\* main.c:159-185: the loop is left and the frame presented, or an SDL call fails
AppIterate_render ==
    /\ phase = "loop"
    /\ \E ok \in BOOLEAN :
         IF ok
         THEN phase' = "idle" /\ UNCHANGED <<chip8, file, loadResult, stderr, ub>>
         ELSE AppQuit

\* Keys 0..MaxKey are the keys the user touches.
MaxKey == 1

\* SDL_AppEvent with a key event whose scancode is keymap[i]: keypad[i]
\* becomes whether the event is SDL_EVENT_KEY_DOWN.  An event that repeats
\* the state of the key changes nothing.
AppEvent_key ==
    /\ phase = "idle"
    /\ \E i \in 0..MaxKey, down \in BOOLEAN :
         /\ chip8.keypad[i] # down
         /\ chip8' = [chip8 EXCEPT !.keypad[i] = down]
    /\ UNCHANGED <<file, phase, loadResult, stderr, ub>>

\* SDL_AppEvent with SDL_EVENT_QUIT
AppEvent_quit ==
    /\ phase = "idle"
    /\ AppQuit

Next ==
    \/ AppInit_initialize
    \/ AppInit_load
    \/ AppInit_SDL
    \/ AppIterate
    \/ AppIterate_loop
    \/ AppIterate_render
    \/ AppEvent_key
    \/ AppEvent_quit

-----------------------------------------------------------------------------
(* ROM files.                                                              *)

\* The two bytes of an opcode, high byte first.
Ins(op) == <<op \div 256, op % 256>>

\* The image of a program given as a sequence of opcodes.
RECURSIVE Image(_)
Image(ops) == IF ops = <<>> THEN <<>> ELSE Ins(Head(ops)) \o Image(Tail(ops))

Rom(ops) == [kind |-> "ok", bytes |-> Image(ops)]

\* A file of n bytes that starts with 1200 (jump to 0x200).
Filler(n) ==
    [kind |-> "ok",
     bytes |-> [i \in 1..n |-> IF i = 1 THEN 18 ELSE IF i = 2 THEN 0
                                ELSE (i % 255) + 1]]

\* The values tried for the delay and the sound timer.
TimerPairs == {<<0, 0>>, <<1, 0>>, <<0, 2>>, <<3, 1>>, <<255, 255>>}

\* 60dd F015 61ss F118 F207 F30A 120C: set both timers, read the delay
\* back, wait for a key, then spin
TimerRoms ==
    { Rom(<<24576 + t[1], 61461, 24832 + t[2], 61720, 62471, 62218, 4620>>) :
        t \in TimerPairs }

BootFiles ==
    { [kind |-> "missing", bytes |-> <<>>],
      [kind |-> "notell", bytes |-> <<18, 0>>],
      Rom(<<>>),
      Filler(CHIP8_MEMORY_SIZE - 512),
      Filler(CHIP8_MEMORY_SIZE - 512 + 1) }
    \cup TimerRoms

\* The opcode with the nibbles a, b, c, d.
Op(a, b, c, d) == ((a * 16 + b) * 16 + c) * 16 + d

\* The operand values tried by the arithmetic programs.
AluValues == {0, 1, 127, 128, 255}

\* The registers tried as X by the add-imm programs.
AddRegs == {0, 10, 15}

\* 6F4D 6Xaa 7Xn1 7Xn2: preset VF, set VX, add twice
AddTwiceRom(X, a, n1, n2) ==
    Rom(<<Op(6, 15, 4, 13), Op(6, X, 0, 0) + a, Op(7, X, 0, 0) + n1,
          Op(7, X, 0, 0) + n2>>)

\* 6A02 7A05 1204: the scenario of the specification, then a jump to itself
ScenarioRom == Rom(<<Op(6, 10, 0, 2), Op(7, 10, 0, 5), Op(1, 2, 0, 4)>>)

AddFiles ==
    { AddTwiceRom(X, a, n1, n2) :
        X \in AddRegs, a \in AluValues, n1 \in AluValues, n2 \in AluValues }
    \cup {ScenarioRom}

\* The register pairs <<X, Y>> and the 8XYn codes tried.
AluPairs == {<<0, 1>>, <<1, 1>>, <<15, 1>>, <<1, 15>>, <<15, 15>>}
AluCodes == {4, 5, 6, 7, 14}

\* 6Xaa 6Ybb 8XYn
AluRom(X, Y, a, b, n) ==
    Rom(<<Op(6, X, 0, 0) + a, Op(6, Y, 0, 0) + b, Op(8, X, Y, n)>>)

\* 6Faa 61bb A000 DXY5 DXY5 DXY5: the glyph 0 drawn three times at (VX, VY)
DrawRom(X, Y, a, b) ==
    Rom(<<Op(6, 15, 0, 0) + a, Op(6, 1, 0, 0) + b, Op(10, 0, 0, 0),
          Op(13, X, Y, 5), Op(13, X, Y, 5), Op(13, X, Y, 5)>>)

\* Annn 6Xvv FX1E FX1E
IndexRom(X, n, v) ==
    Rom(<<Op(10, 0, 0, 0) + n, Op(6, X, 0, 0) + v, Op(15, X, 1, 14),
          Op(15, X, 1, 14)>>)

AluFiles ==
    { AluRom(xy[1], xy[2], a, b, n) :
        xy \in AluPairs, a \in AluValues, b \in AluValues, n \in AluCodes }
    \cup { DrawRom(xy[1], xy[2], a, b) :
             xy \in {<<15, 1>>, <<1, 15>>, <<15, 15>>}, a \in {0, 62}, b \in {0, 30} }
    \cup { IndexRom(X, n, v) : X \in {0, 15}, n \in {0, 3969, 4095}, v \in AluValues }

\* The positions <<VX, VY>> tried by the draw programs: the origin, the
\* bottom right corner, and values above 63 and 31.
DrawPositions == {<<0, 0>>, <<62, 30>>, <<62, 0>>, <<70, 33>>, <<255, 255>>}

\* The sprite addresses tried: the glyphs of the font, and the program itself.
DrawSprites == {0, PROGRAM_START}

\* The sprite heights tried.
DrawHeights == {0, 5, 8}

\* 60aa 61bb Annn D01N D01N D01N: the same draw three times
DrawThriceRom(a, b, n, N) ==
    Rom(<<Op(6, 0, 0, 0) + a, Op(6, 1, 0, 0) + b, Op(10, 0, 0, 0) + n,
          Op(13, 0, 1, N), Op(13, 0, 1, N), Op(13, 0, 1, N)>>)

\* A005 D115 60aa 61bb A000 D014 D014: the glyph 1 at (0, 0), then four rows
\* of the glyph 0 twice at (a, b)
OverlapRom(a, b) ==
    Rom(<<Op(10, 0, 0, 5), Op(13, 1, 1, 5), Op(6, 0, 0, 0) + a,
          Op(6, 1, 0, 0) + b, Op(10, 0, 0, 0), Op(13, 0, 1, 4),
          Op(13, 0, 1, 4)>>)

\* 60aa 61bb Annn D01N 00E0 D01N: draw, clear, draw
ClearDrawRom(a, b, n, N) ==
    Rom(<<Op(6, 0, 0, 0) + a, Op(6, 1, 0, 0) + b, Op(10, 0, 0, 0) + n,
          Op(13, 0, 1, N), Op(0, 0, 14, 0), Op(13, 0, 1, N)>>)

\* A00D D001 00E0 D001: memory[13] is 0x80, a sprite of one pixel, drawn at
\* (0, 0), cleared, and drawn again
PixelRom ==
    Rom(<<Op(10, 0, 0, 13), Op(13, 0, 0, 1), Op(0, 0, 14, 0), Op(13, 0, 0, 1)>>)

DrawFiles ==
    { DrawThriceRom(xy[1], xy[2], n, N) :
        xy \in DrawPositions, n \in DrawSprites, N \in DrawHeights }
    \cup { OverlapRom(a, b) : a \in {0, 1, 3}, b \in {0, 2, 4} }
    \cup { ClearDrawRom(xy[1], xy[2], n, 5) :
             xy \in {<<0, 0>>, <<62, 30>>}, n \in DrawSprites }
    \cup {PixelRom}

\* The call to the address a.
Call(a) == Op(2, 0, 0, 0) + a

\* The i-th (from 0) of n calls, each to the instruction that follows it.
CallChain(n) == [i \in 1..n |-> Call(PROGRAM_START + 2 * i)]

\* 2202 2204 ... 2222: 17 nested calls
OverflowRom == Rom(CallChain(CHIP8_STACK_SIZE + 1))

\* 2200: a subroutine that calls itself
SelfCallRom == Rom(<<Call(PROGRAM_START)>>)

\* Where the subroutine of DeepRom is: 0x300, 256 bytes into the program.
DeepTarget == PROGRAM_START + 256

\* k nested calls, the last one to 0x300 where a 00EE is; the bytes between
\* the calls and 0x300 are zero.
DeepRom(k) ==
    [kind |-> "ok",
     bytes |->
        [i \in 1..(DeepTarget - PROGRAM_START + 2) |->
           IF i <= 2 * (k - 1) THEN Image(CallChain(k - 1))[i]
           ELSE IF i <= 2 * k THEN Ins(Call(DeepTarget))[i - 2 * (k - 1)]
           ELSE IF i = DeepTarget - PROGRAM_START + 2 THEN 238
           ELSE 0]]

\* The depths tried by DeepRom.
DeepDepths == {1, 2, CHIP8_STACK_SIZE}

\* 200: 2208  202: 220A  204: 00EE  206: 0000
\* 208: 00EE  20A: 220E  20C: 00EE  20E: 00EE
\* two round trips, one of them nested, then a return on the empty stack
RoundTripRom ==
    Rom(<<Call(520), Call(522), 238, 0, 238, Call(526), 238, 238>>)

\* 00EE 00EE: returns with nothing ever pushed
ReturnFirstRom == Rom(<<238, 238>>)

\* The opcodes tried that no handler decodes.
UnknownOpcodes ==
    { 0, 225, 239, 291, 4095,                     \* 0000 00E1 00EF 0123 0FFF
      32776, 32799, 35513, 32781,                 \* 8008 801F 8AB9 800D
      57344, 57501, 57506, 57599,                 \* E000 E09D E0A2 E0FF
      61440, 61451, 61462, 61471, 61492, 61526,   \* F000 F00B F016 F01F F034 F056
      61542, 61695 }                              \* F066 F0FF

\* 6007 F015 F018 A005 D005 220C op: timers running, the glyph 1 on the
\* display at (7, 7) and one return address on the stack when op is fetched
UnknownRom(op) ==
    Rom(<<Op(6, 0, 0, 7), Op(15, 0, 1, 5), Op(15, 0, 1, 8), Op(10, 0, 0, 5),
          Op(13, 0, 0, 5), Call(524), op>>)

FlowFiles ==
    {OverflowRom, SelfCallRom, RoundTripRom, ReturnFirstRom}
    \cup { DeepRom(k) : k \in DeepDepths }
    \cup { UnknownRom(op) : op \in UnknownOpcodes }

\* 6Xvv FX0A FX0A: set VX, wait for a key twice
KeyRom(X, v) ==
    Rom(<<Op(6, X, 0, 0) + v, Op(15, X, 0, 10), Op(15, X, 0, 10)>>)

KeyFiles == { KeyRom(X, v) : X \in {0, 5, 15}, v \in {0, 7, 255} }

\* The register pairs <<X, Y>> and the values tried by the skip programs.
SkipPairs == {<<1, 2>>, <<0, 1>>, <<2, 0>>, <<15, 15>>}
SkipValues == {0, 255}

\* 60zz 6Xaa 6Ybb fXY0, f being 5 or 9: V0, VX and VY are set, then compared
SkipRom(f, X, Y, z, a, b) ==
    Rom(<<Op(6, 0, 0, 0) + z, Op(6, X, 0, 0) + a, Op(6, Y, 0, 0) + b,
          Op(f, X, Y, 0)>>)

SkipFiles ==
    { SkipRom(f, xy[1], xy[2], z, a, b) :
        f \in {5, 9}, xy \in SkipPairs, z \in SkipValues, a \in SkipValues,
        b \in SkipValues }

\* AFFF 60FF 611F, then 8 times F01E, 71FF, 3100, 1206: 31 rounds of 8
\* additions of 255 to an index that starts at 0xFFF, which takes it past
\* 0xFFFF
IndexLoopRom ==
    Rom(<<Op(10, 15, 15, 15), Op(6, 0, 15, 15), Op(6, 1, 1, 15)>>
        \o [i \in 1..8 |-> Op(15, 0, 1, 14)]
        \o <<Op(7, 1, 15, 15), Op(3, 1, 0, 0), Op(1, 2, 0, 6)>>)

\* 60vv F029
FontRom(v) == Rom(<<Op(6, 0, 0, 0) + v, Op(15, 0, 2, 9)>>)

\* The values of VX tried by FontRom and BcdRom.
FontValues == {0, 1, 9, 15, 16, 255}
BcdValues == {0, 7, 99, 100, 128, 255}

\* 6Xvv Annn FX33
BcdRom(X, v, n) ==
    Rom(<<Op(6, X, 0, 0) + v, Op(10, 0, 0, 0) + n, Op(15, X, 3, 3)>>)

\* 6001 6111 ... 6FF1: Vi is set to 16 * i + 1
SetRegisters == [i \in 1..16 |-> Op(6, i - 1, 0, 0) + 16 * (i - 1) + 1]

\* SetRegisters Annn FX55 60EE 6XEE 6FEE FX65: the registers are stored,
\* V0, VX and VF are changed, the registers are loaded
StoreLoadRom(X, n) ==
    Rom(SetRegisters
        \o <<Op(10, 0, 0, 0) + n, Op(15, X, 5, 5), Op(6, 0, 14, 14),
             Op(6, X, 14, 14), Op(6, 15, 14, 14), Op(15, X, 6, 5)>>)

\* 60vv BFFF: a jump to 0xFFF + V0
JumpOffRom(v) == Rom(<<Op(6, 0, 0, 0) + v, Op(11, 15, 15, 15)>>)

\* A file that fills memory up to 0xFFF: 1FFE at 0x200, 6000 at 0xFFE, zero
\* between; after the 6000 pc is 0x1000.
RunOffRom ==
    [kind |-> "ok",
     bytes |-> [i \in 1..(CHIP8_MEMORY_SIZE - PROGRAM_START) |->
                  IF i = 1 THEN 31
                  ELSE IF i = 2 THEN 254
                  ELSE IF i = CHIP8_MEMORY_SIZE - PROGRAM_START - 1 THEN 96
                  ELSE 0]]

\* Annn D002: a sprite of two rows at nnn
SpriteRom(n) == Rom(<<Op(10, 0, 0, 0) + n, Op(13, 0, 0, 2)>>)

\* The addresses tried as index: inside memory, the last ones that keep the
\* accesses inside, and the first ones that do not.
MemFiles ==
    {IndexLoopRom, RunOffRom}
    \cup { IndexRom(X, n, v) : X \in {0, 15}, n \in {0, 3969, 4095}, v \in AluValues }
    \cup { FontRom(v) : v \in FontValues }
    \cup { BcdRom(X, v, n) : X \in {0, 15}, v \in BcdValues, n \in {768, 4093} }
    \cup { BcdRom(0, 123, n) : n \in {4094, 4095} }
    \cup { StoreLoadRom(X, n) : X \in {0, 1, 7, 15}, n \in {768, 4080} }
    \cup { StoreLoadRom(15, 4088) }
    \cup { JumpOffRom(v) : v \in {0, 1, 255} }
    \cup { SpriteRom(n) : n \in {4094, 4095} }

\* A program that executes every instruction once:
\*   200: 00E0 6005 6105 7001   204..206: V0 = 6, V1 = 5
\*   208: 3006 0000 4007 0000   both skips are taken
\*   210: 5000 0000 9010 0000   both skips are taken
\*   218: 8010 8011 8012 8013 8014 8015 8016 8017 801E
\*   22A: 6000 B230 0000        a jump to 0x230 + V0
\*   230: C1FF A000 D015        the glyph 0 at (0, V1 mod 32), V1 random
\*   236: E09E 6000 E0A1 6000   skips on the key 0
\*   23E: F007 F015 F018 F01E F029
\*   248: A300 F033 F155 F165
\*   250: F20A 2258 1256 0000   await a key, call 0x258, jump to the end
\*   258: 00EE
TourRom ==
    Rom(<<224, Op(6, 0, 0, 5), Op(6, 1, 0, 5), Op(7, 0, 0, 1),
          Op(3, 0, 0, 6), 0, Op(4, 0, 0, 7), 0,
          Op(5, 0, 0, 0), 0, Op(9, 0, 1, 0), 0,
          Op(8, 0, 1, 0), Op(8, 0, 1, 1), Op(8, 0, 1, 2), Op(8, 0, 1, 3),
          Op(8, 0, 1, 4), Op(8, 0, 1, 5), Op(8, 0, 1, 6), Op(8, 0, 1, 7),
          Op(8, 0, 1, 14),
          Op(6, 0, 0, 0), Op(11, 2, 3, 0), 0,
          Op(12, 1, 15, 15), Op(10, 0, 0, 0), Op(13, 0, 1, 5),
          Op(14, 0, 9, 14), Op(6, 0, 0, 0), Op(14, 0, 10, 1), Op(6, 0, 0, 0),
          Op(15, 0, 0, 7), Op(15, 0, 1, 5), Op(15, 0, 1, 8), Op(15, 0, 1, 14),
          Op(15, 0, 2, 9),
          Op(10, 3, 0, 0), Op(15, 0, 3, 3), Op(15, 1, 5, 5), Op(15, 1, 6, 5),
          Op(15, 2, 0, 10), Call(600), Op(1, 2, 5, 6), 0,
          238>>)

TourFiles == {TourRom} \cup KeyFiles

\* 6Add 6Bss FB18 FA15 FC07 120A: set the sound timer, set the delay timer
\* while the sound timer runs, read the delay back, then spin
TimerOrderRom(d, s) ==
    Rom(<<Op(6, 10, d \div 16, d % 16), Op(6, 11, s \div 16, s % 16),
          Op(15, 11, 1, 8), Op(15, 10, 1, 5), Op(15, 12, 0, 7),
          Op(1, 2, 0, 10)>>)

TimerFiles == TimerRoms \cup { TimerOrderRom(t[1], t[2]) : t \in TimerPairs }

\* The call and return programs, the tour of every instruction and two
\* programs that store past the end of memory.
StackFiles ==
    FlowFiles \cup {TourRom, StoreLoadRom(15, 4088), BcdRom(0, 123, 4094)}

\* The values of VX tried by the skips on a key.
KeypadValues == {0, 1, 15, 16, 255}

\* 60vv E0nn 1204 1206: set V0, skip on the key V0, then spin at 0x204 if
\* the skip was not taken and at 0x206 if it was
KeypadRom(nn, v) ==
    Rom(<<Op(6, 0, 0, 0) + v, Op(14, 0, 0, 0) + nn, Op(1, 2, 0, 4),
          Op(1, 2, 0, 6)>>)

KeypadFiles == { KeypadRom(nn, v) : nn \in {158, 161}, v \in KeypadValues }

InitWith(files) ==
    /\ chip8 \in GarbageMachines
    /\ file \in files
    /\ phase = "start"
    /\ loadResult = "none"
    /\ stderr = <<>>
    /\ ub = FALSE

Init == InitWith(BootFiles)

Spec == Init /\ [][Next]_vars

\* The driver started on an add-imm program.
SpecAdd == InitWith(AddFiles) /\ [][Next]_vars

\* The driver started on a program of flag-defining instructions.
SpecAlu == InitWith(AluFiles) /\ [][Next]_vars

\* The driver started on a program that draws.
SpecDraw == InitWith(DrawFiles) /\ [][Next]_vars

\* The driver started on a program of calls and returns, or on one that
\* reaches an opcode no handler decodes.
SpecFlow == InitWith(FlowFiles) /\ [][Next]_vars

\* The driver started on a program that waits for keys.
SpecKey == InitWith(KeyFiles) /\ [][Next]_vars

\* The driver started on a program that compares two registers.
SpecSkip == InitWith(SkipFiles) /\ [][Next]_vars

\* The driver started on a program that uses index and memory.
SpecMem == InitWith(MemFiles) /\ [][Next]_vars

\* The driver started on a program that executes every instruction.
SpecTour == InitWith(TourFiles) /\ [][Next]_vars

\* The driver started on a program that sets and reads the timers.
SpecTimer == InitWith(TimerFiles) /\ [][Next]_vars

\* The driver started on a program that calls and returns, or on one that
\* executes the other instructions.
SpecStack == InitWith(StackFiles) /\ [][Next]_vars

\* The driver started on a program that skips on a key.
SpecKeypad == InitWith(KeypadFiles) /\ [][Next]_vars

-----------------------------------------------------------------------------
(* Steps of the driver, as seen on a pair of states.  A call of            *)
(* chip8_clock is the only step that ends in "loop", "exited" or           *)
(* "crashed"; it returned iff the phase after it is "loop", and the opcode *)
(* it executed is then chip8'.opcode.                                      *)

ClockCalled == phase' \in {"loop", "exited", "crashed"}

ClockReturned == phase' = "loop"

LoadCalled == phase = "initialized" /\ phase' = "loaded"

\* The fields of the machine other than memory.
OutsideMemory(c) ==
    <<c.opcode, c.index, c.pc, c.stack, c.sound, c.delay, c.sp, c.V,
      c.keypad, c.display>>

-----------------------------------------------------------------------------
(* C1: after chip8_initialize, whatever the struct held before, every      *)
(* field is zero (registers, index, opcode, stack and stack pointer, both  *)
(* timers, keypad, framebuffer, memory from address 80 up), memory[0..79]  *)
(* is the font table and pc is 0x200.                                      *)
C1_InitializeResets ==
    phase = "initialized" =>
        /\ chip8.opcode = 0 /\ chip8.index = 0 /\ chip8.sp = 0
        /\ chip8.delay = 0 /\ chip8.sound = 0
        /\ chip8.pc = 512
        /\ \A i \in 0..15 : chip8.V[i] = 0 /\ chip8.stack[i] = 0
                            /\ chip8.keypad[i] = FALSE
        /\ \A p \in 0..2047 : chip8.display[p] = FALSE
        /\ \A a \in 0..79 : chip8.memory[a] = FONT_DATA[a + 1]
        /\ \A a \in 80..4095 : chip8.memory[a] = 0
        /\ Len(FONT_DATA) = 80

C1_Witness ==
    /\ phase = "initialized"
    /\ chip8.memory[0] = 240 /\ chip8.memory[79] = 128 /\ chip8.memory[512] = 0

(* C2: a load that succeeds copies byte i of the ROM to memory[0x200 + i]  *)
(* for every i below the ROM's length, which is at most 3584, and changes  *)
(* no other byte of memory and no other field.                             *)
C2_LoadCopiesRomOnly ==
    [][(LoadCalled /\ loadResult' = "ok") =>
          /\ Len(file.bytes) <= 4096 - 512
          /\ \A a \in 0..4095 :
               chip8'.memory[a] =
                   IF a >= 512 /\ a - 512 < Len(file.bytes)
                   THEN file.bytes[a - 512 + 1]
                   ELSE chip8.memory[a]
          /\ OutsideMemory(chip8') = OutsideMemory(chip8)]_vars

C2_Witness ==
    /\ phase = "loaded" /\ loadResult = "ok"
    /\ Len(file.bytes) = 14
    /\ chip8.memory[512] = 96 /\ chip8.memory[525] = 12
    /\ chip8.memory[526] = 0 /\ chip8.memory[511] = 0

(* C3: a load of a ROM longer than 4096 - 0x200 = 3584 bytes fails and     *)
(* leaves memory and every other field as they were; a ROM of exactly 3584 *)
(* bytes is accepted.                                                      *)
C3_OversizedRomRejected ==
    [][(LoadCalled /\ file.kind = "ok") =>
          /\ Len(file.bytes) > 3584 => loadResult' = "failed" /\ chip8' = chip8
          /\ Len(file.bytes) = 3584 => loadResult' = "ok"]_vars

C3_Witness ==
    /\ phase = "loaded" /\ loadResult = "failed"
    /\ file.kind = "ok" /\ Len(file.bytes) = 3585
    /\ chip8.memory[512] = 0

(* C4: chip8_clock is never called on a machine whose load failed.         *)
C4_NoClockAfterFailedLoad ==
    [][loadResult = "failed" => ~ClockCalled]_vars

\* set-delay FX15 and set-sound FX18
SetsTimer(opcode) ==
    opcode \div 4096 = 15 /\ (opcode % 256 = 21 \/ opcode % 256 = 24)

(* C5: a chip8_clock call that returns and executes neither FX15 nor FX18  *)
(* leaves each timer one lower if it was above 0 and at 0 if it was 0,     *)
(* also when it re-executes an await-key; both timers are always in        *)
(* 0..255.                                                                 *)
C5_TimersTick ==
    /\ [](chip8.delay \in 0..255 /\ chip8.sound \in 0..255)
    /\ [][(ClockReturned /\ ~SetsTimer(chip8'.opcode)) =>
             /\ chip8'.delay = IF chip8.delay > 0 THEN chip8.delay - 1 ELSE 0
             /\ chip8'.sound = IF chip8.sound > 0 THEN chip8.sound - 1 ELSE 0]_vars

\* the await-key at 0x20A is being re-executed while the delay timer runs
C5_Witness ==
    /\ phase = "loop"
    /\ chip8.opcode = 62218 /\ chip8.pc = 522
    /\ chip8.delay > 0 /\ chip8.delay < 250 /\ chip8.sound = chip8.delay + 2

-----------------------------------------------------------------------------
\* The driver is between or inside SDL_AppIterate calls: the program runs.
Running == phase \in {"idle", "loop"}

\* The register nibbles of an opcode.
XOf(opcode) == (opcode \div 256) % 16
YOf(opcode) == (opcode \div 16) % 16

\* What one add-imm X,n leaves in VX when VX is a, by the handler x7.
AddOnce(X, a, n) ==
    LET c == [chip8 EXCEPT !.V = [chip8.V EXCEPT ![X] = a],
                           !.opcode = Op(7, X, 0, 0) + n]
        r == x7(c)
    IN  r.m.V[X]

\* At the end of 6F4D 6Xaa 7Xn1 7Xn2, VX is what add-imm X,(n1+n2) mod 256
\* leaves of a, and VF is still 0x4D when X is not 0xF.
AddTwiceIsAddOnce ==
    \A X \in AddRegs, a \in AluValues, n1 \in AluValues, n2 \in AluValues :
        (Running /\ file = AddTwiceRom(X, a, n1, n2) /\ chip8.pc = 520) =>
            /\ chip8.V[X] = (a + n1 + n2) % 256
            /\ chip8.V[X] = AddOnce(X, a, (n1 + n2) % 256)
            /\ X # 15 => chip8.V[15] = 77

(* C6: add-imm (7XNN) leaves VX == (VX + NN) mod 256 and every other       *)
(* register, VF included when X != 0xF, as it was; two add-imm of N1 and   *)
(* N2 on VX == a leave VX == (a + N1 + N2) mod 256, which is what one      *)
(* add-imm of (N1 + N2) mod 256 leaves; 6A02, 7A05 leaves V[A] == 7 and VF *)
(* as it was after 2 clocks.                                               *)
C6_AddImm ==
    /\ [][(ClockReturned /\ chip8'.opcode \div 4096 = 7) =>
             LET X == XOf(chip8'.opcode)
                 NN == chip8'.opcode % 256
             IN  /\ chip8'.V[X] = (chip8.V[X] + NN) % 256
                 /\ \A i \in 0..15 : i # X => chip8'.V[i] = chip8.V[i]]_vars
    /\ []AddTwiceIsAddOnce
    /\ []((Running /\ file = ScenarioRom /\ chip8.pc = 516) =>
            chip8.V[10] = 7 /\ chip8.V[15] = 0)

\* 6F4D 6AFF 7A80 7AFF has run: 255 + 128 + 255 wraps to 126, VF is still 0x4D
C6_Witness ==
    /\ phase = "loop" /\ chip8.pc = 520 /\ chip8.opcode = Op(7, 10, 15, 15)
    /\ file = AddTwiceRom(10, 255, 128, 255)
    /\ chip8.V[10] = 126 /\ chip8.V[15] = 77

\* The opcode is 8XYn with the given n.
IsAlu(opcode, n) == opcode \div 4096 = 8 /\ opcode % 16 = n

(* C7: reg-ADD (8XY4) with X != 0xF leaves VX == (VX + VY) mod 256 and     *)
(* VF == 1 if VX + VY > 255, VF == 0 otherwise.                            *)
C7_RegAdd ==
    [][(ClockReturned /\ IsAlu(chip8'.opcode, 4) /\ XOf(chip8'.opcode) # 15) =>
          LET a == chip8.V[XOf(chip8'.opcode)]
              b == chip8.V[YOf(chip8'.opcode)]
          IN  /\ chip8'.V[XOf(chip8'.opcode)] = (a + b) % 256
              /\ chip8'.V[15] = IF a + b > 255 THEN 1 ELSE 0]_vars

\* 60FF 6180 8014 has run: 255 + 128 = 383
C7_Witness ==
    /\ phase = "loop" /\ chip8.opcode = Op(8, 0, 1, 4)
    /\ chip8.V[0] = 127 /\ chip8.V[1] = 128 /\ chip8.V[15] = 1

(* C8: reg-SUB (8XY5) with X != 0xF leaves VX == (VX - VY) mod 256 and     *)
(* VF == 1 if VX >= VY, VF == 0 if VX < VY.                                *)
C8_RegSub ==
    [][(ClockReturned /\ IsAlu(chip8'.opcode, 5) /\ XOf(chip8'.opcode) # 15) =>
          LET a == chip8.V[XOf(chip8'.opcode)]
              b == chip8.V[YOf(chip8'.opcode)]
          IN  /\ chip8'.V[XOf(chip8'.opcode)] = (a - b) % 256
              /\ a >= b => chip8'.V[15] = 1
              /\ a < b => chip8'.V[15] = 0]_vars

\* 6080 6180 8015 has run: equal operands
C8_Witness ==
    /\ phase = "loop" /\ chip8.opcode = Op(8, 0, 1, 5)
    /\ chip8.V[0] = 0 /\ chip8.V[1] = 128 /\ chip8.V[15] = 1

\* What SHR and SHL leave in VX and VF, for X != 0xF.
ShiftResult(c, d) ==
    LET X == XOf(d.opcode)
    IN  /\ IsAlu(d.opcode, 6) =>
             d.V[X] = c.V[X] \div 2 /\ d.V[15] = c.V[X] % 2
        /\ IsAlu(d.opcode, 14) =>
             d.V[X] = (c.V[X] * 2) % 256 /\ d.V[15] = c.V[X] \div 128

IsShift(opcode) == IsAlu(opcode, 6) \/ IsAlu(opcode, 14)

(* C9 as claimed: SHR (8XY6) leaves VX == old VX div 2 and VF == old VX    *)
(* mod 2, SHL (8XYE) leaves VX == (old VX * 2) mod 256 and VF == bit 7 of  *)
(* old VX, and VY is unchanged, for X != 0xF and Y != X.                   *)
C9_Shifts_AsClaimed ==
    [][(ClockReturned /\ IsShift(chip8'.opcode) /\ XOf(chip8'.opcode) # 15) =>
          /\ ShiftResult(chip8, chip8')
          /\ YOf(chip8'.opcode) # XOf(chip8'.opcode) =>
               chip8'.V[YOf(chip8'.opcode)] = chip8.V[YOf(chip8'.opcode)]]_vars

(* C9 amended: as claimed, with VY unchanged for X != 0xF, Y != X and      *)
(* Y != 0xF (VF is written by the shift).                                  *)
C9_Shifts ==
    [][(ClockReturned /\ IsShift(chip8'.opcode) /\ XOf(chip8'.opcode) # 15) =>
          /\ ShiftResult(chip8, chip8')
          /\ (YOf(chip8'.opcode) # XOf(chip8'.opcode) /\ YOf(chip8'.opcode) # 15) =>
               chip8'.V[YOf(chip8'.opcode)] = chip8.V[YOf(chip8'.opcode)]]_vars

\* 60FF 6180 8016 has run: 255 shifted right, V1 = 128 ignored
C9_Witness ==
    /\ phase = "loop" /\ chip8.opcode = Op(8, 0, 1, 6)
    /\ chip8.V[0] = 127 /\ chip8.V[1] = 128 /\ chip8.V[15] = 1

\* Bit col (0 the leftmost) of row row of the sprite at index.
SpriteBit(c, row, col) == (c.memory[c.index + row] \div (2 ^ (7 - col))) % 2 = 1

\* A visible bit of the N-row sprite drawn at (vx mod 64, vy mod 32) covers a
\* set cell.
Collision(c, vx, vy, N) ==
    \E row \in 0..(N - 1), col \in 0..7 :
        /\ (vx % 64) + col <= 63
        /\ (vy % 32) + row <= 31
        /\ SpriteBit(c, row, col)
        /\ c.display[((vx % 64) + col) + ((vy % 32) + row) * 64]

BoolToInt(b) == IF b THEN 1 ELSE 0

\* The flag an opcode defines, from the machine c before the instruction.
FlagOf(c, opcode) ==
    LET a == c.V[XOf(opcode)]
        b == c.V[YOf(opcode)]
    IN  CASE IsAlu(opcode, 4) -> BoolToInt(a + b > 255)
          [] IsAlu(opcode, 5) -> BoolToInt(a >= b)
          [] IsAlu(opcode, 6) -> a % 2
          [] IsAlu(opcode, 7) -> BoolToInt(b >= a)
          [] IsAlu(opcode, 14) -> a \div 128
          [] opcode \div 4096 = 13 -> BoolToInt(Collision(c, a, b, opcode % 16))
          [] OTHER -> BoolToInt((c.index + a) % 65536 > 4095)

DefinesFlag(opcode) ==
    \/ \E n \in {4, 5, 6, 7, 14} : IsAlu(opcode, n)
    \/ opcode \div 4096 = 13
    \/ opcode \div 4096 = 15 /\ opcode % 256 = 30

(* C10: after 8XY4, 8XY5, 8XY6, 8XY7, 8XYE, DXYN or FX1E, also with X or Y *)
(* 0xF, VF is the flag (carry, no-borrow, shifted-out bit, collision,      *)
(* index beyond 0xFFF) computed from the registers, VF included, as they   *)
(* were before the instruction.                                            *)
C10_FlagIsLastWrite ==
    [][(ClockReturned /\ DefinesFlag(chip8'.opcode)) =>
          chip8'.V[15] = FlagOf(chip8, chip8'.opcode)]_vars

\* 6FFF 6180 8F14 has run: VF holds the carry of 255 + 128, not the sum 127
C10_Witness ==
    /\ phase = "loop" /\ chip8.opcode = Op(8, 15, 1, 4)
    /\ file = AluRom(15, 1, 255, 128, 4)
    /\ chip8.V[15] = 1 /\ chip8.V[1] = 128

-----------------------------------------------------------------------------
(* Draw (DXYN).  The sprite is the N bytes at index; it is drawn with its  *)
(* top left corner at (VX mod 64, VY mod 32).                              *)

IsDraw(opcode) == opcode \div 4096 = 13

OriginX(c, opcode) == c.V[XOf(opcode)] % 64
OriginY(c, opcode) == c.V[YOf(opcode)] % 32

\* The N bytes of the sprite are bytes of memory.
SpriteInMemory(c, opcode) == c.index + (opcode % 16) <= CHIP8_MEMORY_SIZE

\* The sprite of opcode has a set bit on the cell p (column p mod 64, row
\* p div 64) when its origin is that of the machine c: bits are not wrapped.
Covers(c, opcode, p) ==
    LET col == (p % 64) - OriginX(c, opcode)
        row == (p \div 64) - OriginY(c, opcode)
    IN  /\ col \in 0..7
        /\ row \in 0..((opcode % 16) - 1)
        /\ SpriteBit(c, row, col)

\* The cells of the rectangle origin.x..min(origin.x + 7, 63) by
\* origin.y..min(origin.y + N - 1, 31).
InRectangle(c, opcode, p) ==
    LET ox == OriginX(c, opcode)
        oy == OriginY(c, opcode)
        right == IF ox + 7 < 63 THEN ox + 7 ELSE 63
        bottom == IF oy + (opcode % 16) - 1 < 31 THEN oy + (opcode % 16) - 1 ELSE 31
    IN  (p % 64) \in ox..right /\ (p \div 64) \in oy..bottom

\* The machine after the instruction that took c to d is executed once more
\* on d.
Again(c, d) == chip8_clock([d EXCEPT !.pc = c.pc], Env0).m

\* A draw with X and Y not 0xF and the sprite in memory has returned.
DrewPlain ==
    /\ ClockReturned
    /\ IsDraw(chip8'.opcode)
    /\ XOf(chip8'.opcode) # 15 /\ YOf(chip8'.opcode) # 15
    /\ SpriteInMemory(chip8, chip8'.opcode)

DisplayIndexes(c, opcode) ==
    { (OriginX(c, opcode) + col) + ((OriginY(c, opcode) + row) * 64) :
        row \in { i \in 0..((opcode % 16) - 1) : ~(OriginY(c, opcode) + i > 31) },
        col \in { j \in 0..7 : ~(OriginX(c, opcode) + j > 63) } }

(* C13: a draw changes only cells with column in origin.x..min(origin.x +  *)
(* 7, 63) and row in origin.y..min(origin.y + N - 1, 31), where origin is  *)
(* (VX mod 64, VY mod 32): bits past the right or the bottom edge are      *)
(* drawn nowhere; and every framebuffer index it computes is in 0..2047.   *)
C13_DrawClips ==
    [][(ClockReturned /\ IsDraw(chip8'.opcode)) =>
          /\ \A p \in Pixels :
               chip8'.display[p] # chip8.display[p] =>
                   InRectangle(chip8, chip8'.opcode, p)
          /\ DisplayIndexes(chip8, chip8'.opcode) \subseteq 0..2047
          /\ DOMAIN chip8'.display = 0..2047]_vars

\* 603E 611E A200 D018 has run: the origin is (62, 30) and the sprite is
\* the program, whose rows 0x60 and 0x3E have bits on columns 1, 2 and 2..6:
\* cell (63, 30) is set, and nothing is set on any other row or at the left
C13_Witness ==
    /\ phase = "loop" /\ file = DrawThriceRom(62, 30, PROGRAM_START, 8)
    /\ chip8.pc = 520 /\ chip8.opcode = Op(13, 0, 1, 8)
    /\ \A p \in Pixels : chip8.display[p] = (p = 63 + 30 * 64)

\* The instruction executed before this one was 00E0.
AfterClear == chip8.opcode = 224 /\ phase \in {"idle", "loop"}

(* C14: after 00E0 every cell is clear; a draw executed next, its sprite   *)
(* in memory, leaves set exactly the cells covered by the visible set bits *)
(* of the sprite and VF == 0; 00E0 and then the one-pixel sprite 0x80      *)
(* drawn at (0, 0) leave cell (0, 0) set and no other.                     *)
C14_ClearThenDraw ==
    /\ [][(ClockReturned /\ chip8'.opcode = 224) =>
             \A p \in Pixels : ~chip8'.display[p]]_vars
    /\ [][(AfterClear /\ ClockReturned /\ IsDraw(chip8'.opcode)
             /\ SpriteInMemory(chip8, chip8'.opcode)) =>
             /\ \A p \in Pixels :
                  chip8'.display[p] = Covers(chip8, chip8'.opcode, p)
             /\ chip8'.V[15] = 0]_vars
    /\ []((Running /\ file = PixelRom /\ chip8.pc = 520) =>
             /\ chip8.V[15] = 0
             /\ \A p \in Pixels : chip8.display[p] = (p = 0))

\* A00D D001 00E0 D001 has run
C14_Witness ==
    /\ phase = "loop" /\ file = PixelRom
    /\ chip8.pc = 520 /\ chip8.opcode = Op(13, 0, 0, 1)
    /\ chip8.display[0] /\ ~chip8.display[1] /\ ~chip8.display[64]
    /\ chip8.V[15] = 0

-----------------------------------------------------------------------------
(* Calls and returns.                                                      *)

\* The opcode chip8_clock is about to fetch, pc and pc + 1 being in memory.
NextOpcode(c) == c.memory[c.pc] * 256 + c.memory[c.pc + 1]

\* chip8_clock is called and fetches from memory an opcode of the family
\* (top nibble) given.
Fetches(family) ==
    /\ ClockCalled
    /\ chip8.pc + 1 \in Addresses
    /\ NextOpcode(chip8) \div 4096 = family

\* What is at the address a is a return.
ReturnAt(c, a) == a + 1 \in Addresses /\ c.memory[a] * 256 + c.memory[a + 1] = 238

(* C15: a call NNN at p executed with sp < 16 returns with pc == NNN, sp   *)
(* one higher and p + 2 on top of the stack; when a return is at NNN, the  *)
(* next chip8_clock leaves pc == p + 2 and sp as before the call.          *)
C15_CallReturn ==
    [][(Fetches(2) /\ chip8.sp < 16) =>
          LET p == chip8.pc
              NNN == NextOpcode(chip8) % 4096
              back == chip8_clock(chip8', Env0).m
          IN  /\ phase' = "loop"
              /\ chip8'.pc = NNN
              /\ chip8'.sp = chip8.sp + 1
              /\ chip8'.stack[chip8'.sp - 1] = p + 2
              /\ ReturnAt(chip8', NNN) =>
                   back.pc = p + 2 /\ back.sp = chip8.sp]_vars

\* 15 calls, the call to 0x300 at 0x21E and the 00EE at 0x300 have run
C15_Witness ==
    /\ phase = "loop" /\ file = DeepRom(16)
    /\ chip8.opcode = 238 /\ chip8.pc = 544 /\ chip8.sp = 15
    /\ chip8.stack[15] = 544 /\ chip8.stack[14] = 542

\* The fields of the machine a call that overflows could have written.
OutsideFetch(c) ==
    <<c.index, c.stack, c.sound, c.delay, c.sp, c.V, c.keypad, c.memory,
      c.display>>

(* C16: from the empty stack 16 nested calls succeed, sp reaches 16 and    *)
(* the 16 return addresses are on the stack; a call with sp == 16 ends the *)
(* process with the message Stack Overflow and writes no stack slot, no    *)
(* byte of memory and nothing outside the arrays.                          *)
C16_StackDepth ==
    /\ []((Running /\ file = OverflowRom) =>
            \A k \in 0..16 :
                chip8.pc = 512 + 2 * k =>
                    /\ chip8.sp = k
                    /\ \A i \in 0..(k - 1) : chip8.stack[i] = 514 + 2 * i)
    /\ [][(Fetches(2) /\ chip8.sp < 16) =>
             phase' = "loop" /\ chip8'.sp = chip8.sp + 1]_vars
    /\ [][(Fetches(2) /\ chip8.sp = 16) =>
             /\ phase' = "exited"
             /\ stderr' = stderr \o <<Message("Stack Overflow", 0)>>
             /\ OutsideFetch(chip8') = OutsideFetch(chip8)
             /\ DOMAIN chip8'.stack = 0..15
             /\ ub' = ub]_vars

\* the 17th call of 2202 2204 ... 2222 has ended the process
C16_Witness ==
    /\ phase = "exited" /\ file = OverflowRom
    /\ chip8.opcode = Call(546) /\ chip8.sp = 16
    /\ chip8.stack[0] = 514 /\ chip8.stack[15] = 544
    /\ stderr = <<Message("Stack Overflow", 0)>>

(* C17: 00EE executed with sp == 0 returns without a message, with sp == 0 *)
(* and the stack as it was, and with pc at the address after the 00EE.     *)
C17_ReturnOnEmpty ==
    [][(Fetches(0) /\ NextOpcode(chip8) = 238 /\ chip8.sp = 0) =>
          /\ phase' = "loop"
          /\ stderr' = stderr
          /\ chip8'.sp = 0
          /\ chip8'.stack = chip8.stack
          /\ chip8'.pc = chip8.pc + 2]_vars

\* the 00EE at 0x204 of RoundTripRom has run on the stack the two round
\* trips left: empty, with 0x204 still in slot 0
C17_Witness ==
    /\ phase = "loop" /\ file = RoundTripRom
    /\ chip8.opcode = 238 /\ chip8.pc = 518 /\ chip8.sp = 0
    /\ chip8.stack[0] = 516 /\ chip8.stack[1] = 524
    /\ stderr = <<>>

-----------------------------------------------------------------------------
(* Opcodes that no handler decodes.                                        *)

\* The sub-opcode of opcode is not one its family defines.
UnknownOpcode(opcode) ==
    LET family == opcode \div 4096
    IN  \/ family = 0 /\ opcode \notin {224, 238}
        \/ family = 8 /\ opcode % 16 \notin {0, 1, 2, 3, 4, 5, 6, 7, 14}
        \/ family = 14 /\ opcode % 256 \notin {158, 161}
        \/ family = 15 /\ opcode % 256 \notin {7, 10, 21, 24, 30, 41, 51, 85, 101}

\* chip8_clock is called and fetches from memory an opcode that no handler
\* decodes; for EXnn, VX is the number of a key.
FetchesUnknown ==
    /\ ClockCalled
    /\ chip8.pc + 1 \in Addresses
    /\ UnknownOpcode(NextOpcode(chip8))
    /\ NextOpcode(chip8) \div 4096 = 14 => chip8.V[XOf(NextOpcode(chip8))] < 16

-----------------------------------------------------------------------------
(* Await-key (FX0A).                                                       *)

\* chip8_clock is called and fetches an FX0A.
FetchesAwaitKey == Fetches(15) /\ NextOpcode(chip8) % 256 = 10

KeyDown(c) == \E i \in 0..15 : c.keypad[i]

(* C18: a chip8_clock that fetches FX0A while no key is down returns to    *)
(* the driver with pc at the same FX0A, every register as it was and still *)
(* no key down, so the same holds of the next chip8_clock, and of any      *)
(* number of them, until a key is pressed.                                 *)
C18_AwaitKeyBlocks ==
    [][(FetchesAwaitKey /\ ~KeyDown(chip8)) =>
          /\ phase' = "loop"
          /\ chip8'.pc = chip8.pc
          /\ NextOpcode(chip8') = NextOpcode(chip8)
          /\ chip8'.V = chip8.V
          /\ ~KeyDown(chip8')]_vars

\* 65FF F50A has run with no key down: pc is back at 0x202
C18_Witness ==
    /\ phase = "loop" /\ file = KeyRom(5, 255)
    /\ chip8.opcode = Op(15, 5, 0, 10) /\ chip8.pc = 514
    /\ chip8.V[5] = 255
    /\ ~KeyDown(chip8)

(* C19: a chip8_clock that fetches FX0A while a key is down returns with   *)
(* pc 2 past the FX0A, VX the lowest i in 0..15 with keypad[i] set, and    *)
(* the other registers as they were.                                       *)
C19_AwaitKeyReleases ==
    [][(FetchesAwaitKey /\ KeyDown(chip8)) =>
          LET X == XOf(NextOpcode(chip8))
          IN  /\ phase' = "loop"
              /\ chip8'.pc = chip8.pc + 2
              /\ chip8'.V[X] \in 0..15
              /\ chip8.keypad[chip8'.V[X]]
              /\ \A j \in 0..15 : j < chip8'.V[X] => ~chip8.keypad[j]
              /\ \A i \in 0..15 : i # X => chip8'.V[i] = chip8.V[i]]_vars

\* 65FF F50A has run with the keys 0 and 1 down: V5 is 0
C19_Witness ==
    /\ phase = "loop" /\ file = KeyRom(5, 255)
    /\ chip8.opcode = Op(15, 5, 0, 10) /\ chip8.pc = 516
    /\ chip8.keypad[0] /\ chip8.keypad[1]
    /\ chip8.V[5] = 0

-----------------------------------------------------------------------------
(* Skips on two registers (5XY0, 9XY0).                                    *)

\* chip8_clock returned from an opcode fXY0 with pc advanced by 4 if skip
\* and by 2 if not, and with every register as it was.
SkipsIf(f, skip) ==
    (ClockReturned /\ chip8'.opcode \div 4096 = f) =>
        /\ chip8'.pc = chip8.pc + (IF skip THEN 4 ELSE 2)
        /\ chip8'.V = chip8.V

(* C21: 5XY0 advances pc by 4 if VX == VY and by 2 otherwise, VY being the *)
(* register numbered by bits 7..4 of the opcode, and changes no register.  *)
C21_SkipEqReg ==
    [][SkipsIf(5, chip8.V[XOf(chip8'.opcode)] = chip8.V[YOf(chip8'.opcode)])]_vars

(* C22: 9XY0 advances pc by 4 if VX != VY and by 2 otherwise, VY being the *)
(* register numbered by bits 7..4 of the opcode, and changes no register.  *)
C22_SkipNeqReg ==
    [][SkipsIf(9, chip8.V[XOf(chip8'.opcode)] # chip8.V[YOf(chip8'.opcode)])]_vars

\* 6000 6100 62FF 9120 has run: V1 differs from V2 and equals V0, the skip
\* is taken
C22_Witness ==
    /\ phase = "loop" /\ file = SkipRom(9, 1, 2, 0, 0, 255)
    /\ chip8.opcode = Op(9, 1, 2, 0) /\ chip8.pc = 522
    /\ chip8.V[0] = 0 /\ chip8.V[1] = 0 /\ chip8.V[2] = 255

-----------------------------------------------------------------------------
(* The instructions on index and memory (FX1E, FX29, FX33, FX55, FX65).    *)

\* chip8_clock is called and fetches FXnn with the nn given.
FetchesF(nn) == Fetches(15) /\ NextOpcode(chip8) % 256 = nn

(* C23: FX1E returns with index == (index + VX) mod 65536 and VF == 1 if   *)
(* that index is above 0xFFF, VF == 0 otherwise; whatever index is, it     *)
(* returns, prints nothing and makes no access outside an array.           *)
C23_AddToIndex ==
    [][FetchesF(30) =>
          LET X == XOf(NextOpcode(chip8))
          IN  /\ phase' = "loop"
              /\ stderr' = stderr
              /\ ub' = ub
              /\ chip8'.index = (chip8.index + chip8.V[X]) % 65536
              /\ chip8'.V[15] = IF chip8'.index > 4095 THEN 1 ELSE 0]_vars

\* The additions of 255 have taken index from 0xFFF past 0xFFFF: it is
\* small again and VF is 0
C23_Witness ==
    /\ phase = "loop" /\ file = IndexLoopRom
    /\ chip8.opcode = Op(15, 0, 1, 14)
    /\ chip8.index < 255 /\ chip8.V[15] = 0 /\ chip8.V[1] = 1

\* The 5 bytes of the glyph of the digit d, as FONT_DATA lists them.
Glyph(d) == [k \in 0..4 |-> FONT_DATA[5 * d + k + 1]]

\* index is the address of the glyph of the digit VX in the font table.
PointsToGlyph(c, VX) ==
    /\ c.index \in 0..79
    /\ \A k \in 0..4 : c.index + k \in 0..79
                       /\ c.memory[c.index + k] = Glyph(VX % 16)[k]

(* C24 as claimed: FX29 returns with index == VX * 5, an address within    *)
(* 0..79, that of the first of the 5 bytes of the glyph of VX.             *)
C24_FontAddress_AsClaimed ==
    [][(FetchesF(41) /\ ClockReturned) =>
          LET VX == chip8.V[XOf(NextOpcode(chip8))]
          IN  /\ chip8'.index = VX * 5
              /\ chip8'.index \in 0..79]_vars

(* C24 amended: FX29 returns with index == VX * 5; when VX is a hex digit  *)
(* (0..15) that is an address within 0..79, the address of the first of    *)
(* the 5 bytes of the glyph of VX as chip8_initialize installed it.        *)
C24_FontAddress ==
    [][FetchesF(41) =>
          LET VX == chip8.V[XOf(NextOpcode(chip8))]
          IN  /\ phase' = "loop"
              /\ chip8'.index = VX * 5
              /\ VX \in 0..15 => PointsToGlyph(chip8', VX)]_vars

\* 600F F029 has run: index is 75, where the glyph F (F0 80 F0 80 80) is
C24_Witness ==
    /\ phase = "loop" /\ file = FontRom(15)
    /\ chip8.opcode = Op(15, 0, 2, 9) /\ chip8.index = 75
    /\ chip8.memory[75] = 240 /\ chip8.memory[76] = 128 /\ chip8.memory[79] = 128

\* The memory of d is that of c except at the addresses from a to b.
MemorySameOutside(c, d, a, b) ==
    \A x \in Addresses : x \notin a..b => d.memory[x] = c.memory[x]

\* The fields of the machine other than the registers and memory, and other
\* than opcode, pc and the timers, which every chip8_clock writes.
OutsideRegistersAndMemory(c) == <<c.index, c.stack, c.sp, c.keypad, c.display>>

(* C25: FX33 with index + 2 inside memory returns with memory[index] ==    *)
(* VX div 100, memory[index + 1] == (VX div 10) mod 10, memory[index + 2]  *)
(* == VX mod 10, three digits in 0..9 that read as VX, and with index,     *)
(* every register and every other byte of memory as they were.             *)
C25_StoreBcd ==
    [][(FetchesF(51) /\ chip8.index + 2 \in Addresses) =>
          LET VX == chip8.V[XOf(NextOpcode(chip8))]
              I == chip8.index
          IN  /\ phase' = "loop"
              /\ chip8'.memory[I] = VX \div 100
              /\ chip8'.memory[I + 1] = (VX \div 10) % 10
              /\ chip8'.memory[I + 2] = VX % 10
              /\ \A k \in 0..2 : chip8'.memory[I + k] \in 0..9
              /\ 100 * chip8'.memory[I] + 10 * chip8'.memory[I + 1]
                   + chip8'.memory[I + 2] = VX
              /\ MemorySameOutside(chip8, chip8', I, I + 2)
              /\ chip8'.V = chip8.V
              /\ OutsideRegistersAndMemory(chip8') = OutsideRegistersAndMemory(chip8)]_vars

\* 6F80 AFFD FF33 has run: 1, 2, 8 are the last three bytes of memory
C25_Witness ==
    /\ phase = "loop" /\ file = BcdRom(15, 128, 4093)
    /\ chip8.opcode = Op(15, 15, 3, 3) /\ chip8.index = 4093
    /\ chip8.memory[4093] = 1 /\ chip8.memory[4094] = 2 /\ chip8.memory[4095] = 8
    /\ chip8.V[15] = 128

(* C26: FX55 with index + X inside memory returns with memory[index + i]   *)
(* == Vi for i in 0..X, and with index, every register and every other    *)
(* byte of memory as they were.                                            *)
C26_StoreRegisters ==
    [][(FetchesF(85) /\ chip8.index + XOf(NextOpcode(chip8)) \in Addresses) =>
          LET X == XOf(NextOpcode(chip8))
              I == chip8.index
          IN  /\ phase' = "loop"
              /\ \A i \in 0..X : chip8'.memory[I + i] = chip8.V[i]
              /\ MemorySameOutside(chip8, chip8', I, I + X)
              /\ chip8'.V = chip8.V
              /\ OutsideRegistersAndMemory(chip8') = OutsideRegistersAndMemory(chip8)]_vars

\* V0..V7 of 01 11 21 .. F1 have been stored at 0xFF0: 0xFF7 holds V7 and
\* 0xFF8 is untouched
C26_Witness ==
    /\ phase = "loop" /\ file = StoreLoadRom(7, 4080)
    /\ chip8.opcode = Op(15, 7, 5, 5) /\ chip8.index = 4080
    /\ chip8.memory[4080] = 1 /\ chip8.memory[4087] = 113
    /\ chip8.memory[4088] = 0
    /\ chip8.V[7] = 113 /\ chip8.V[8] = 129

(* C27: FX65 with index + X inside memory returns with Vi == memory[index  *)
(* + i] for i in 0..X, and with V(X+1)..VF, index and memory as they were; *)
(* after FX55, changes to V0..VX and FX65 at the same index, V0..VX are    *)
(* what they were at the FX55.                                             *)
C27_LoadRegisters ==
    /\ [][(FetchesF(101) /\ chip8.index + XOf(NextOpcode(chip8)) \in Addresses) =>
             LET X == XOf(NextOpcode(chip8))
                 I == chip8.index
             IN  /\ phase' = "loop"
                 /\ \A i \in 0..X : chip8'.V[i] = chip8.memory[I + i]
                 /\ \A i \in (X + 1)..15 : chip8'.V[i] = chip8.V[i]
                 /\ chip8'.memory = chip8.memory
                 /\ OutsideRegistersAndMemory(chip8') = OutsideRegistersAndMemory(chip8)]_vars
    /\ [](\A X \in {0, 1, 7, 15}, n \in {768, 4080} :
            (Running /\ file = StoreLoadRom(X, n) /\ chip8.pc = 556) =>
                \A i \in 0..X : chip8.V[i] = 16 * i + 1)

\* The FX65 of StoreLoadRom(7, 0x300) has run: V0 and V7, set to 0xEE after
\* the store, are 0x01 and 0x71 again, VF is still 0xEE
C27_Witness ==
    /\ phase = "loop" /\ file = StoreLoadRom(7, 768)
    /\ chip8.opcode = Op(15, 7, 6, 5) /\ chip8.pc = 556
    /\ chip8.V[0] = 1 /\ chip8.V[7] = 113 /\ chip8.V[8] = 129
    /\ chip8.V[15] = 238

-----------------------------------------------------------------------------
(* The addresses of memory a chip8_clock call uses.                        *)

\* The indexes at which the handler of opcode subscripts memory: xD reads
\* the row before it tests for the bottom of the screen.
HandlerAccesses(c, opcode) ==
    LET X == XOf(opcode)
        Y == c.V[YOf(opcode)] % 32
        N == opcode % 16
    IN  IF opcode \div 4096 = 13
        THEN { c.index + row :
                 row \in { i \in 0..(N - 1) : i = 0 \/ ~(Y + (i - 1) > 31) } }
        ELSE IF opcode \div 4096 = 15 /\ opcode % 256 = 51
        THEN { c.index + k : k \in 0..2 }
        ELSE IF opcode \div 4096 = 15 /\ opcode % 256 \in {85, 101}
        THEN { c.index + i : i \in 0..X }
        ELSE {}

\* The indexes at which chip8_clock and the handler it calls subscript
\* memory; a fetch outside memory yields no opcode to go by.
MemoryAccesses(c) ==
    {c.pc, c.pc + 1}
    \cup (IF c.pc + 1 \in Addresses
          THEN HandlerAccesses(c, NextOpcode(c))
          ELSE {})

(* C28: every chip8_clock subscripts memory, for the fetch at pc and pc +  *)
(* 1, the sprite rows at index + row, the digits at index..index + 2 and   *)
(* the registers at index..index + X, at addresses in 0x000..0xFFF only.   *)
C28_AddressSafety ==
    [][ClockCalled => MemoryAccesses(chip8) \subseteq 0..4095]_vars

(* C30: a chip8_clock that executes 00E0 leaves every cell clear, one that *)
(* executes neither 00E0 nor DXYN leaves every cell as it was.             *)
C30_FramebufferPersists ==
    [][(ClockCalled /\ phase' # "crashed" /\ chip8.pc + 1 \in Addresses) =>
          /\ NextOpcode(chip8) = 224 => \A p \in Pixels : ~chip8'.display[p]
          /\ (NextOpcode(chip8) # 224 /\ ~IsDraw(NextOpcode(chip8))) =>
               chip8'.display = chip8.display]_vars

-----------------------------------------------------------------------------
(* The keypad.                                                             *)

\* The phases in which the machine is initialized, loaded and not freed.
Alive == {"idle", "loop", "exited", "crashed"}

(* C29: no chip8_clock call, that of an FX0A included, changes a keypad    *)
(* flag; while the machine runs the flags change only in SDL_AppEvent,     *)
(* between two callbacks of the driver and so between two chip8_clock      *)
(* calls.                                                                  *)
C29_KeypadIsInput ==
    /\ [][ClockCalled => chip8'.keypad = chip8.keypad]_vars
    /\ [][(phase \in Alive /\ phase' \in Alive
             /\ chip8'.keypad # chip8.keypad) =>
             phase = "idle" /\ phase' = "idle"]_vars

\* The FX0A of the tour has taken the key 1, which is still down, and the
\* call after it has run
C29_Witness ==
    /\ phase = "loop" /\ file = TourRom
    /\ chip8.opcode = Call(600) /\ chip8.pc = 600 /\ chip8.sp = 1
    /\ chip8.V[2] = 1
    /\ chip8.keypad[1] /\ ~chip8.keypad[0]


-----------------------------------------------------------------------------
(* The program counter.                                                    *)

\* The opcode is one of the skips 3XNN, 4XNN, 5XY0, 9XY0, EX9E, EXA1.
IsSkip(opcode) ==
    \/ opcode \div 4096 \in {3, 4, 5, 9}
    \/ opcode \div 4096 = 14 /\ opcode % 256 \in {158, 161}

\* The opcode is a jump, a call, a return or a jump with offset.
IsTransfer(opcode) == opcode \div 4096 \in {1, 2, 11} \/ opcode = 238

\* The opcode is an FX0A and no key is down in the machine c.
BlockedAwait(c, opcode) ==
    /\ opcode \div 4096 = 15 /\ opcode % 256 = 10
    /\ ~KeyDown(c)

(* C31: a chip8_clock call with pc and pc + 1 in memory executes the       *)
(* opcode memory[pc] * 256 + memory[pc + 1]; when it returns, pc is        *)
(* old pc + 2 or old pc + 4 after a skip, and old pc + 2 after any         *)
(* instruction that is not a skip, a jump, a call, a return, a jump with   *)
(* offset or an await-key with no key down.                                *)
C31_PcStepping ==
    [][(ClockCalled /\ phase' # "crashed" /\ chip8.pc + 1 \in Addresses) =>
          LET opcode == NextOpcode(chip8)
          IN  /\ chip8'.opcode = opcode
              /\ (ClockReturned /\ IsSkip(opcode)) =>
                   chip8'.pc \in {chip8.pc + 2, chip8.pc + 4}
              /\ (ClockReturned /\ ~IsSkip(opcode) /\ ~IsTransfer(opcode)
                    /\ ~BlockedAwait(chip8, opcode)) =>
                   chip8'.pc = chip8.pc + 2]_vars

\* The 3006 at 0x208 of the tour has found V0 == 6 and skipped to 0x20C
C31_Witness ==
    /\ phase = "loop" /\ file = TourRom
    /\ chip8.opcode = Op(3, 0, 0, 6) /\ chip8.V[0] = 6
    /\ chip8.pc = PROGRAM_START + 12


-----------------------------------------------------------------------------
(* The order of the handler and the timers in one chip8_clock call.        *)

\* What the timers part of chip8_clock makes of a timer value t.
Tick(t) == IF t > 0 THEN t - 1 ELSE 0

\* The fields of the machine other than opcode, pc, the timers and V.
OutsideTimersAndRegisters(c) ==
    <<c.index, c.stack, c.sp, c.keypad, c.memory, c.display>>

-----------------------------------------------------------------------------
(* The stack pointer.                                                      *)

\* The phases in which chip8_initialize has run and the machine is not
\* freed.
Initialized == {"initialized", "loaded"} \cup Alive

\* The stack slots chip8_clock subscripts when it executes opcode on the
\* machine c: push writes stack[sp] if it does not exit, pop reads
\* stack[sp - 1] if sp is not 0.
StackAccesses(c, opcode) ==
    IF opcode \div 4096 = 2
    THEN (IF c.sp > CHIP8_STACK_SIZE - 1 THEN {} ELSE {c.sp})
    ELSE IF opcode = 238
    THEN (IF c.sp = 0 THEN {} ELSE {(c.sp - 1) % 256})
    ELSE {}

(* C33: once chip8_initialize has run sp is in 0..16; a call that returns  *)
(* leaves sp one higher and writes only the slot sp; a return with sp > 0  *)
(* leaves sp one lower and every slot as it was; any other chip8_clock     *)
(* call leaves sp and every slot as they were; every slot subscripted is   *)
(* in 0..15.                                                               *)
C33_StackPointer ==
    /\ [](phase \in Initialized => chip8.sp \in 0..CHIP8_STACK_SIZE)
    /\ [][(ClockCalled /\ phase' # "crashed") =>
             LET opcode == chip8'.opcode
                 call == opcode \div 4096 = 2
                 return == opcode = 238
             IN  /\ StackAccesses(chip8, opcode) \subseteq StackSlots
                 /\ DOMAIN chip8'.stack = StackSlots
                 /\ (ClockReturned /\ call) =>
                      /\ chip8'.sp = chip8.sp + 1
                      /\ \A i \in StackSlots \ {chip8.sp} :
                            chip8'.stack[i] = chip8.stack[i]
                 /\ (return /\ chip8.sp > 0) =>
                      /\ chip8'.sp = chip8.sp - 1
                      /\ chip8'.stack = chip8.stack
                 /\ ~(ClockReturned /\ call) /\ ~(return /\ chip8.sp > 0) =>
                      /\ chip8'.sp = chip8.sp
                      /\ chip8'.stack = chip8.stack]_vars

\* The 00EE at 0x300 has returned from the 16th nested call: sp is back from
\* 16 to 15 and pc is the address after that call
C33_Witness ==
    /\ phase = "loop" /\ file = DeepRom(CHIP8_STACK_SIZE)
    /\ chip8.opcode = 238 /\ chip8.sp = CHIP8_STACK_SIZE - 1
    /\ chip8.pc = PROGRAM_START + 2 * CHIP8_STACK_SIZE
    /\ chip8.stack[CHIP8_STACK_SIZE - 1] = chip8.pc


-----------------------------------------------------------------------------
(* The subscripts of keypad.                                               *)

\* The keypad entries chip8_clock subscripts when it executes opcode on the
\* machine c: xE reads keypad[VX], the loop of FX0A reads keypad[0] up to
\* the first key that is down.
KeypadAccesses(c, opcode) ==
    IF opcode \div 4096 = 14
    THEN {c.V[XOf(opcode)]}
    ELSE IF opcode \div 4096 = 15 /\ opcode % 256 = 10
    THEN {i \in 0..15 : \A j \in 0..(i - 1) : ~c.keypad[j]}
    ELSE {}

(* C34: every keypad entry a chip8_clock call reads has an index in 0..15, *)
(* whatever VX is when EX9E or EXA1 is executed.                           *)
C34_KeypadIndexSafety ==
    [][(ClockCalled /\ chip8.pc + 1 \in Addresses) =>
          KeypadAccesses(chip8, NextOpcode(chip8)) \subseteq 0..15]_vars

=============================================================================
